---------------------------- MODULE Spec2Model ----------------------------
(***************************************************************************)
(* State-machine model of the counter library of                          *)
(* examples/concurrent_data_structures/counter:                            *)
(*   - ApproximateCounter.c  (the "sloppy" counter: one global count and   *)
(*     mThreads local counts, each behind its own pthread mutex);          *)
(*   - TraditionalCounter.c  (one global count behind one mutex);          *)
(*   - the callers of the tCounter_interface function table.               *)
(*                                                                         *)
(* Every C statement that touches shared memory or a mutex is one action.  *)
(* A read-modify-write (x += y) is a read into the thread's `reg` followed *)
(* by a write, so that the mutexes, and not the model, are what makes the  *)
(* update atomic.  A thread blocked in pthread_mutex_lock is a thread      *)
(* whose lock action is not enabled.                                       *)
(*                                                                         *)
(* Counts are uint32_t in the source; the model keeps every count far      *)
(* below 2^32 (at most MaxCount), so no addition here wraps.             *)
(***************************************************************************)
EXTENDS Integers, Sequences, FiniteSets, TLC

\* ------------------------------------------------------------------ bounds
MaxWorkers == 2      \* caller threads that may be inside the library at once
MaxThreads == 2      \* largest mThreads (number of local slots) tried
MaxThreshold == 2    \* largest mThreshold tried
MaxAmount == 2       \* largest iAmount passed to increment
MaxCount == 3        \* largest sum of amounts between two resets
MaxIncrements == 1   \* largest iNumIncrements given to the harness
MaxWarmups == 1      \* largest iNumWarmups given to the harness
MaxHotRuns == 1      \* the iNumHotRuns given to the harness
MaxUnits == 3        \* largest iNumIncrements of a workload taken by itself
MaxSteps == 2        \* largest mSteps given to sweep_threshold

VARIABLES
    iface,        \* iface[t]: the interface worker t calls through (mInterfacePtr)
    mThreshold,   \* ApproximateCounter: flush trigger
    mThreads,     \* ApproximateCounter: number of local slots
    mGlobal,      \* ApproximateCounter: global count
    mLocal,       \* ApproximateCounter: local counts, slot -> count
    mGlock,       \* ApproximateCounter: owner of the global mutex (NoOwner: free)
    mLlock,       \* ApproximateCounter: slot -> owner of that slot's mutex
    tGlobal,      \* TraditionalCounter: global count
    tGlock,       \* TraditionalCounter: owner of its mutex
    pc,           \* pc[t]: the statement worker t executes next
    iThread,      \* iThread[t]: slot argument of t's current call
    iAmount,      \* iAmount[t]: amount argument of t's current increment, until
                  \* the increment has added it (0 otherwise)
    aThread,      \* aThread[t]: loop index of t's current reset
    reg,          \* reg[t]: the count t's current += has read and not yet written
                  \* back (0 outside a +=)
    oCount,       \* oCount[t]: value t's get in flight wrote to *oCount
    total,        \* history: per variant, sum of the amounts applied since reset
    resetRun,     \* history: resets completed in a row (0, 1, 2 = two or more)
    flushed,      \* history: slots flushed since the last increment or reset call
    track,        \* whether this behaviour records resetRun and flushed
    snap,         \* history: mGlobal (g) and mLocal (l) as the last call found
                  \* them, and its slot (s) and amount (a)
    gAcq,         \* history: gAcq[t]: times t locked mGlock inside increment
    iNumThreads,  \* harness input: worker threads (and slots) per run
    iThreshold,   \* harness input: threshold of the ApproximateCounter
    iNumIncrements, \* harness input: increments per worker and run
    iNumWarmups,  \* harness input: runs before the measured ones
    iNumHotRuns,  \* harness input: measured runs
    hpc,          \* the statement the harness thread executes next ("none":
                  \* no harness, the callers are free)
    aDut,         \* harness: index of the counter under test
    aRun,         \* harness: index of the run in its loop
    aIncrement,   \* aIncrement[t]: increments worker t has issued in this run
    wk,           \* wk[t]: "off", "loop", "flush" or "done": worker t's position
    records,      \* harness: the records written to the output file
    events,       \* history: events[d]: what was done to instance d, in order
    carry,        \* history: per variant, how many times 2^32 the sum of the
                  \* amounts applied since reset is above total
    lastRead,     \* history: per variant, the count the latest get read since
                  \* the last reset (0: none yet; NoRead: not recorded)
    sweep         \* the sub-command that calls the harness: its arguments, loop
                  \* variables and, as history, the trials it has finished
                  \* ([cmd |-> "none"]: the harness is taken by itself)

vars == <<iface, mThreshold, mThreads, mGlobal, mLocal, mGlock, mLlock,
          tGlobal, tGlock, pc, iThread, iAmount, aThread, reg, oCount,
          total, resetRun, flushed, track, snap, gAcq,
          iNumThreads, iThreshold, iNumIncrements, iNumWarmups, iNumHotRuns,
          hpc, aDut, aRun, aIncrement, wk, records, events, carry, lastRead,
          sweep>>

params   == <<iface, mThreshold, mThreads, track>>
inputs   == <<iNumThreads, iThreshold, iNumIncrements, iNumWarmups, iNumHotRuns,
              sweep>>
bench    == <<inputs, hpc, aDut, aRun, aIncrement, wk, records, events>>
harness  == <<snap, gAcq, bench>>
counterA == <<mGlobal, mLocal, mGlock, mLlock>>
counterT == <<tGlobal, tGlock>>
args     == <<iThread, iAmount>>

Workers == 1..MaxWorkers
\* The thread that runs the harness, and all threads.
Main    == MaxWorkers + 1
Threads == Workers \cup {Main}
NoOwner == 0
Slots   == 0..(mThreads - 1)
Amounts == 1..MaxAmount

Approx == "approximate"
Trad   == "traditional"

\* The counters under test, in the order the harness takes them.
kBenchCounter_idxCount == 2
Duts == 0..(kBenchCounter_idxCount - 1)
DutName(d) == IF d = 0 THEN Approx ELSE Trad

\* ------------------------------------------------------- pure helpers

RECURSIVE SumUpTo(_, _)
SumUpTo(f, n) == IF n = 0 THEN 0 ELSE f[n - 1] + SumUpTo(f, n - 1)

\* Sum of all local counts.
SumLocal == SumUpTo(mLocal, mThreads)

\* A uint32_t value v is written v when it is below 2^31 and v - 2^32 when it
\* is not (its bits read as an int32_t): the values next to 2^32 are the small
\* negative numbers, and the sum modulo 2^32 of two values is the sum of what
\* they are written as, as long as that stays small.
UINT32_MAX == 0 - 1
AddU32(a, b) == a + b
LeqU32(a, b) == IF (a >= 0) = (b >= 0) THEN a <= b ELSE a >= 0

\* 1 when the sum of two uint32_t values is 2^32 or more, 0 when it is not.
CarryU32(a, b) ==
    IF a >= 0 /\ b >= 0 THEN 0
    ELSE IF a < 0 /\ b < 0 THEN 1
    ELSE IF a + b >= 0 THEN 1 ELSE 0

\* ApproximateCounter_increment's flush test.
ReachedThresholdOff(local, threshold) == local > threshold
ReachedThreshold(local, threshold) == LeqU32(threshold, local)

\* The value `mGlobal += mLocal[iThread]` stores.
MergedDropsGlobal(global, local) == local
Merged(global, local) == global + local

\* The value `mLocal[iThread] += iAmount` / `mGlobal += iAmount` stores.
Added(count, amount) == count + amount

\* The value reset and the merge write into a count they clear.
Cleared == 0

\* history: lastRead once a get of variant v has read x (or, with x = 0, once
\* a reset or a create has cleared the counts), where reads are recorded.
NoRead == 0 - 1
Read(v, x) == IF lastRead[v] = NoRead THEN lastRead
              ELSE [lastRead EXCEPT ![v] = x]

Goto(t, label) == pc' = [pc EXCEPT ![t] = label]
At(t, label)   == pc[t] = label

\* ------------------------------------------------------------- create

\* ApproximateCounter_create and TraditionalCounter_create, with the options
\* and the workers' contexts the caller set up.
CreatedReading(ifaces, threads, threshold, tracked, reads) ==
    /\ track = tracked
    /\ iface = ifaces
    /\ mThreshold = threshold
    /\ mThreads = threads
    /\ mGlobal = 0
    /\ mLocal = [s \in 0..(threads - 1) |-> 0]
    /\ mGlock = NoOwner
    /\ mLlock = [s \in 0..(threads - 1) |-> NoOwner]
    /\ tGlobal = 0
    /\ tGlock = NoOwner
    /\ pc = [t \in Threads |-> "idle"]
    /\ iThread = [t \in Threads |-> 0]
    /\ iAmount = [t \in Threads |-> 0]
    /\ aThread = [t \in Threads |-> 0]
    /\ reg = [t \in Threads |-> 0]
    /\ oCount = [t \in Threads |-> 0]
    /\ total = [v \in {Approx, Trad} |-> 0]
    /\ carry = [v \in {Approx, Trad} |-> 0]
    /\ lastRead = [v \in {Approx, Trad} |-> reads]
    /\ resetRun = 0
    /\ flushed = {}

Created(ifaces, threads, threshold, tracked) ==
    CreatedReading(ifaces, threads, threshold, tracked, NoRead)

\* No sub-command: BenchCounter_benchApproximateCounter, or the counter, is
\* taken by itself.
NoSweep == [cmd |-> "none"]

\* No harness runs: the callers of the specification drive the counter.
Standalone ==
    /\ snap = [g |-> 0, l |-> <<>>, s |-> 0, a |-> 0]
    /\ gAcq = [t \in Workers |-> 0]
    /\ iNumThreads = 0 /\ iThreshold = 0 /\ iNumIncrements = 0
    /\ iNumWarmups = 0 /\ iNumHotRuns = 0
    /\ hpc = "none"
    /\ aDut = 0
    /\ aRun = 0
    /\ aIncrement = [t \in Workers |-> 0]
    /\ wk = [t \in Workers |-> "off"]
    /\ records = <<>>
    /\ events = [d \in Duts |-> <<>>]
    /\ sweep = NoSweep

Init ==
    \E v \in {Approx, Trad}, n \in 1..MaxThreads, th \in 1..MaxThreshold :
        Created([t \in Threads |-> v], n, th, FALSE) /\ Standalone

\* ------------------------------------------------------------- calls

\* Labels of an increment whose amount is not in a count yet.
NotApplied == {"inc_lockL", "inc_load", "inc_store",
               "tinc_lock", "tinc_load", "tinc_store"}

RECURSIVE PendingUpTo(_, _)
PendingUpTo(v, n) ==
    IF n = 0 THEN 0
    ELSE (IF iface[n] = v /\ pc[n] \in NotApplied THEN iAmount[n] ELSE 0)
         + PendingUpTo(v, n - 1)

\* history: sum of the amounts of the increments of variant v that have
\* started since the last reset, applied or not.
Started(v) == total[v] + PendingUpTo(v, MaxWorkers)

\* A caller invokes mIncrementPtr(counter, slot, amount).
CallIncrement(t) ==
    /\ At(t, "idle")
    /\ \E s \in Slots, a \in Amounts :
          /\ Started(iface[t]) + a <= MaxCount
          /\ iThread' = [iThread EXCEPT ![t] = s]
          /\ iAmount' = [iAmount EXCEPT ![t] = a]
    /\ Goto(t, IF iface[t] = Approx THEN "inc_lockL" ELSE "tinc_lock")
    /\ resetRun' = 0
    /\ flushed' = {}
    /\ UNCHANGED <<params, harness, counterA, counterT, aThread, reg, oCount,
                   total, carry, lastRead>>

\* A caller invokes mFlushPtr(counter, slot).
CallFlush(t) ==
    /\ At(t, "idle")
    /\ \E s \in Slots : iThread' = [iThread EXCEPT ![t] = s]
    /\ Goto(t, IF iface[t] = Approx THEN "fl_lockL" ELSE "tfl_body")
    /\ resetRun' = 0
    /\ UNCHANGED <<params, harness, counterA, counterT, iAmount, aThread, reg,
                   oCount,
                   total, carry, lastRead, flushed>>

\* A caller invokes mGetPtr(counter, &count).
CallGet(t) ==
    /\ At(t, "idle")
    /\ Goto(t, IF iface[t] = Approx THEN "get_lockG" ELSE "tget_lock")
    /\ UNCHANGED <<params, harness, counterA, counterT, args, aThread, reg,
                   oCount,
                   total, carry, lastRead, resetRun, flushed>>

\* A caller invokes mResetPtr(counter).
CallReset(t) ==
    /\ At(t, "idle")
    /\ Goto(t, IF iface[t] = Approx THEN "rs_lockG" ELSE "trs_lock")
    /\ aThread' = [aThread EXCEPT ![t] = 0]
    /\ flushed' = {}
    /\ UNCHANGED <<params, harness, counterA, counterT, args, reg, oCount,
                   total, carry, lastRead, resetRun>>

\* The return of a call: the callee's arguments and locals go out of scope
\* (the count a get of the harness thread wrote stays in its aGlobalCount).
Return(t) ==
    /\ Goto(t, "idle")
    /\ iThread' = [iThread EXCEPT ![t] = 0]
    /\ iAmount' = [iAmount EXCEPT ![t] = 0]
    /\ aThread' = [aThread EXCEPT ![t] = 0]
    /\ reg' = [reg EXCEPT ![t] = 0]
    /\ oCount' = [oCount EXCEPT ![t] = IF t = Main THEN @ ELSE 0]

\* ------------------------------------- ApproximateCounter_increment

\* (an increment that does not take the slot's mutex)
IncLockLMissing(t) ==
    /\ At(t, "inc_lockL")
    /\ Goto(t, "inc_load")
    /\ UNCHANGED <<params, harness, counterA, counterT, args, aThread, reg,
                   oCount,
                   total, carry, lastRead, resetRun, flushed>>

\* pthread_mutex_lock(&mLlock[iThread])
IncLockL(t) ==
    /\ At(t, "inc_lockL")
    /\ mLlock[iThread[t]] = NoOwner
    /\ mLlock' = [mLlock EXCEPT ![iThread[t]] = t]
    /\ Goto(t, "inc_load")
    /\ UNCHANGED <<params, harness, mGlobal, mLocal, mGlock, counterT, args,
                   aThread,
                   reg, oCount, total, carry, lastRead, resetRun, flushed>>

\* mLocal[iThread] += iAmount: the read
IncLoad(t) ==
    /\ At(t, "inc_load")
    /\ reg' = [reg EXCEPT ![t] = mLocal[iThread[t]]]
    /\ Goto(t, "inc_store")
    /\ UNCHANGED <<params, harness, counterA, counterT, args, aThread, oCount,
                   total, carry, lastRead, resetRun, flushed>>

\* mLocal[iThread] += iAmount: the write;  if (mLocal[iThread] >= mThreshold)
IncStore(t) ==
    /\ At(t, "inc_store")
    /\ mLocal' = [mLocal EXCEPT ![iThread[t]] = Added(reg[t], iAmount[t])]
    /\ total' = [total EXCEPT ![Approx] = AddU32(@, iAmount[t])]
    /\ carry' = [carry EXCEPT ![Approx] = @ + CarryU32(total[Approx], iAmount[t])]
    /\ lastRead' = lastRead
    /\ reg' = [reg EXCEPT ![t] = 0]
    /\ iAmount' = [iAmount EXCEPT ![t] = 0]
    /\ Goto(t, IF ReachedThreshold(mLocal'[iThread[t]], mThreshold)
               THEN "inc_lockG" ELSE "inc_unlockL")
    /\ UNCHANGED <<params, harness, mGlobal, mGlock, mLlock, counterT,
                   iThread, aThread,
                   oCount, resetRun, flushed>>

\* pthread_mutex_lock(&mGlock)
IncLockG(t) ==
    /\ At(t, "inc_lockG")
    /\ mGlock = NoOwner
    /\ mGlock' = t
    /\ gAcq' = IF hpc # "none" THEN [gAcq EXCEPT ![t] = @ + 1] ELSE gAcq
    /\ Goto(t, "inc_loadG")
    /\ UNCHANGED <<params, snap, bench, mGlobal, mLocal, mLlock, counterT, args,
                   aThread, reg, oCount, total, carry, lastRead, resetRun, flushed>>

\* mGlobal += mLocal[iThread]: the read
IncLoadG(t) ==
    /\ At(t, "inc_loadG")
    /\ reg' = [reg EXCEPT ![t] = mGlobal]
    /\ Goto(t, "inc_storeG")
    /\ UNCHANGED <<params, harness, counterA, counterT, args, aThread, oCount,
                   total, carry, lastRead, resetRun, flushed>>

\* mGlobal += mLocal[iThread]: the write
IncStoreG(t) ==
    /\ At(t, "inc_storeG")
    /\ mGlobal' = Merged(reg[t], mLocal[iThread[t]])
    /\ reg' = [reg EXCEPT ![t] = 0]
    /\ Goto(t, "inc_unlockG")
    /\ UNCHANGED <<params, harness, mLocal, mGlock, mLlock, counterT, args,
                   aThread,
                   oCount, total, carry, lastRead, resetRun, flushed>>

\* (an increment that leaves mGlock locked after its merge)
IncUnlockGSkipped(t) ==
    /\ At(t, "inc_unlockG")
    /\ Goto(t, "inc_zero")
    /\ UNCHANGED <<params, harness, counterA, counterT, args, aThread, reg,
                   oCount, total, carry, lastRead, resetRun, flushed>>

\* pthread_mutex_unlock(&mGlock)
IncUnlockG(t) ==
    /\ At(t, "inc_unlockG")
    /\ mGlock' = NoOwner
    /\ Goto(t, "inc_zero")
    /\ UNCHANGED <<params, harness, mGlobal, mLocal, mLlock, counterT, args,
                   aThread,
                   reg, oCount, total, carry, lastRead, resetRun, flushed>>

\* (an increment that forgets to clear the local count it merged)
IncZeroSkipped(t) ==
    /\ At(t, "inc_zero")
    /\ Goto(t, "inc_unlockL")
    /\ UNCHANGED <<params, harness, counterA, counterT, args, aThread,
                   reg, oCount, total, carry, lastRead, resetRun, flushed>>

\* mLocal[iThread] = 0
IncZero(t) ==
    /\ At(t, "inc_zero")
    /\ mLocal' = [mLocal EXCEPT ![iThread[t]] = Cleared]
    /\ Goto(t, "inc_unlockL")
    /\ UNCHANGED <<params, harness, mGlobal, mGlock, mLlock, counterT, args,
                   aThread,
                   reg, oCount, total, carry, lastRead, resetRun, flushed>>

\* pthread_mutex_unlock(&mLlock[iThread]); return
IncUnlockL(t) ==
    /\ At(t, "inc_unlockL")
    /\ mLlock' = [mLlock EXCEPT ![iThread[t]] = NoOwner]
    /\ Return(t)
    /\ UNCHANGED <<params, harness, mGlobal, mLocal, mGlock, counterT,
                   total, carry, lastRead, resetRun, flushed>>

\* ----------------------------------------- ApproximateCounter_flush

\* pthread_mutex_lock(&mLlock[iThread])
FlLockL(t) ==
    /\ At(t, "fl_lockL")
    /\ mLlock[iThread[t]] = NoOwner
    /\ mLlock' = [mLlock EXCEPT ![iThread[t]] = t]
    /\ Goto(t, "fl_lockG")
    /\ UNCHANGED <<params, harness, mGlobal, mLocal, mGlock, counterT, args,
                   aThread,
                   reg, oCount, total, carry, lastRead, resetRun, flushed>>

\* pthread_mutex_lock(&mGlock)
FlLockG(t) ==
    /\ At(t, "fl_lockG")
    /\ mGlock = NoOwner
    /\ mGlock' = t
    /\ Goto(t, "fl_loadG")
    /\ UNCHANGED <<params, harness, mGlobal, mLocal, mLlock, counterT, args,
                   aThread,
                   reg, oCount, total, carry, lastRead, resetRun, flushed>>

\* mGlobal += mLocal[iThread]: the read
FlLoadG(t) ==
    /\ At(t, "fl_loadG")
    /\ reg' = [reg EXCEPT ![t] = mGlobal]
    /\ Goto(t, "fl_storeG")
    /\ UNCHANGED <<params, harness, counterA, counterT, args, aThread, oCount,
                   total, carry, lastRead, resetRun, flushed>>

\* mGlobal += mLocal[iThread]: the write
FlStoreG(t) ==
    /\ At(t, "fl_storeG")
    /\ mGlobal' = Merged(reg[t], mLocal[iThread[t]])
    /\ reg' = [reg EXCEPT ![t] = 0]
    /\ Goto(t, "fl_unlockG")
    /\ UNCHANGED <<params, harness, mLocal, mGlock, mLlock, counterT, args,
                   aThread,
                   oCount, total, carry, lastRead, resetRun, flushed>>

\* pthread_mutex_unlock(&mGlock)
FlUnlockG(t) ==
    /\ At(t, "fl_unlockG")
    /\ mGlock' = NoOwner
    /\ Goto(t, "fl_zero")
    /\ UNCHANGED <<params, harness, mGlobal, mLocal, mLlock, counterT, args,
                   aThread,
                   reg, oCount, total, carry, lastRead, resetRun, flushed>>

\* (a flush that forgets to clear the local count)
FlZeroSkipped(t) ==
    /\ At(t, "fl_zero")
    /\ Goto(t, "fl_unlockL")
    /\ UNCHANGED <<params, harness, counterA, counterT, args, aThread,
                   reg, oCount, total, carry, lastRead, resetRun, flushed>>

\* mLocal[iThread] = 0
FlZero(t) ==
    /\ At(t, "fl_zero")
    /\ mLocal' = [mLocal EXCEPT ![iThread[t]] = Cleared]
    /\ Goto(t, "fl_unlockL")
    /\ UNCHANGED <<params, harness, mGlobal, mGlock, mLlock, counterT, args,
                   aThread,
                   reg, oCount, total, carry, lastRead, resetRun, flushed>>

\* pthread_mutex_unlock(&mLlock[iThread]); return
FlUnlockL(t) ==
    /\ At(t, "fl_unlockL")
    /\ mLlock' = [mLlock EXCEPT ![iThread[t]] = NoOwner]
    /\ flushed' = IF track THEN flushed \cup {iThread[t]} ELSE flushed
    /\ Return(t)
    /\ UNCHANGED <<params, harness, mGlobal, mLocal, mGlock, counterT,
                   total, carry, lastRead, resetRun>>

\* ------------------------------------------- ApproximateCounter_get

\* pthread_mutex_lock(&mGlock)
GetLockG(t) ==
    /\ At(t, "get_lockG")
    /\ mGlock = NoOwner
    /\ mGlock' = t
    /\ Goto(t, "get_read")
    /\ UNCHANGED <<params, harness, mGlobal, mLocal, mLlock, counterT, args,
                   aThread,
                   reg, oCount, total, carry, lastRead, resetRun, flushed>>

\* The value ApproximateCounter_get writes to *oCount.
GetValueWithLocals == mGlobal + SumLocal
GetValue == mGlobal

\* *oCount = mGlobal
GetRead(t) ==
    /\ At(t, "get_read")
    /\ oCount' = [oCount EXCEPT ![t] = GetValue]
    /\ lastRead' = Read(Approx, GetValue)
    /\ Goto(t, "get_unlockG")
    /\ UNCHANGED <<params, harness, counterA, counterT, args, aThread, reg,
                   total, carry, resetRun, flushed>>

\* pthread_mutex_unlock(&mGlock); return
GetUnlockG(t) ==
    /\ At(t, "get_unlockG")
    /\ mGlock' = NoOwner
    /\ Return(t)
    /\ UNCHANGED <<params, harness, mGlobal, mLocal, mLlock, counterT,
                   total, carry, lastRead, resetRun, flushed>>

\* ----------------------------------------- ApproximateCounter_reset

\* pthread_mutex_lock(&mGlock)
RsLockG(t) ==
    /\ At(t, "rs_lockG")
    /\ mGlock = NoOwner
    /\ mGlock' = t
    /\ Goto(t, "rs_lockL")
    /\ UNCHANGED <<params, harness, mGlobal, mLocal, mLlock, counterT, args,
                   aThread,
                   reg, oCount, total, carry, lastRead, resetRun, flushed>>

\* for (aThread = 0; aThread < aThreads; ++aThread)
\*     pthread_mutex_lock(&mLlock[aThread]);
RsLockL(t) ==
    /\ At(t, "rs_lockL")
    /\ mLlock[aThread[t]] = NoOwner
    /\ mLlock' = [mLlock EXCEPT ![aThread[t]] = t]
    /\ IF aThread[t] + 1 < mThreads
       THEN /\ aThread' = [aThread EXCEPT ![t] = @ + 1]
            /\ Goto(t, "rs_lockL")
       ELSE /\ aThread' = [aThread EXCEPT ![t] = 0]
            /\ Goto(t, "rs_zeroG")
    /\ UNCHANGED <<params, harness, mGlobal, mLocal, mGlock, counterT, args,
                   reg, oCount, total, carry, lastRead, resetRun, flushed>>

\* mGlobal = 0
RsZeroG(t) ==
    /\ At(t, "rs_zeroG")
    /\ mGlobal' = Cleared
    /\ Goto(t, "rs_zeroL")
    /\ UNCHANGED <<params, harness, mLocal, mGlock, mLlock, counterT, args,
                   aThread,
                   reg, oCount, total, carry, lastRead, resetRun, flushed>>

\* The slots the second loop of reset clears.
ResetClearsFirstOnly(slot) == slot = 0
ResetClears(slot) == TRUE

\* mLocal[aThread] = 0
RsZeroL(t) ==
    /\ At(t, "rs_zeroL")
    /\ mLocal' = IF ResetClears(aThread[t])
                 THEN [mLocal EXCEPT ![aThread[t]] = Cleared]
                 ELSE mLocal
    /\ Goto(t, "rs_unlockL")
    /\ UNCHANGED <<params, harness, mGlobal, mGlock, mLlock, counterT, args,
                   aThread,
                   reg, oCount, total, carry, lastRead, resetRun, flushed>>

\* pthread_mutex_unlock(&mLlock[aThread]), and the loop's next round
RsUnlockL(t) ==
    /\ At(t, "rs_unlockL")
    /\ mLlock' = [mLlock EXCEPT ![aThread[t]] = NoOwner]
    /\ IF aThread[t] + 1 < mThreads
       THEN /\ aThread' = [aThread EXCEPT ![t] = @ + 1]
            /\ Goto(t, "rs_zeroL")
       ELSE /\ aThread' = [aThread EXCEPT ![t] = 0]
            /\ Goto(t, "rs_unlockG")
    /\ UNCHANGED <<params, harness, mGlobal, mLocal, mGlock, counterT, args,
                   reg, oCount, total, carry, lastRead, resetRun, flushed>>

\* pthread_mutex_unlock(&mGlock); return
RsUnlockG(t) ==
    /\ At(t, "rs_unlockG")
    /\ mGlock' = NoOwner
    /\ total' = [total EXCEPT ![Approx] = 0]
    /\ carry' = [carry EXCEPT ![Approx] = 0]
    /\ lastRead' = Read(Approx, 0)
    /\ resetRun' = IF track /\ resetRun < 2 THEN resetRun + 1 ELSE resetRun
    /\ flushed' = {}
    /\ Return(t)
    /\ UNCHANGED <<params, harness, mGlobal, mLocal, mLlock, counterT>>

\* ------------------------------------------------ TraditionalCounter

\* (an increment that does not take the mutex)
TIncLockMissing(t) ==
    /\ At(t, "tinc_lock")
    /\ Goto(t, "tinc_load")
    /\ UNCHANGED <<params, harness, counterA, counterT, args, aThread, reg,
                   oCount,
                   total, carry, lastRead, resetRun, flushed>>

\* TraditionalCounter_increment: pthread_mutex_lock(&mGlock)
TIncLock(t) ==
    /\ At(t, "tinc_lock")
    /\ tGlock = NoOwner
    /\ tGlock' = t
    /\ Goto(t, "tinc_load")
    /\ UNCHANGED <<params, harness, counterA, tGlobal, args, aThread, reg,
                   oCount,
                   total, carry, lastRead, resetRun, flushed>>

\* mGlobal += iAmount: the read
TIncLoad(t) ==
    /\ At(t, "tinc_load")
    /\ reg' = [reg EXCEPT ![t] = tGlobal]
    /\ Goto(t, "tinc_store")
    /\ UNCHANGED <<params, harness, counterA, counterT, args, aThread, oCount,
                   total, carry, lastRead, resetRun, flushed>>

\* mGlobal += iAmount: the write
TIncStore(t) ==
    /\ At(t, "tinc_store")
    /\ tGlobal' = Added(reg[t], iAmount[t])
    /\ total' = [total EXCEPT ![Trad] = AddU32(@, iAmount[t])]
    /\ carry' = [carry EXCEPT ![Trad] = @ + CarryU32(total[Trad], iAmount[t])]
    /\ lastRead' = lastRead
    /\ reg' = [reg EXCEPT ![t] = 0]
    /\ iAmount' = [iAmount EXCEPT ![t] = 0]
    /\ Goto(t, "tinc_unlock")
    /\ UNCHANGED <<params, harness, counterA, tGlock, iThread, aThread, oCount,
                   resetRun, flushed>>

\* pthread_mutex_unlock(&mGlock); return
TIncUnlock(t) ==
    /\ At(t, "tinc_unlock")
    /\ tGlock' = NoOwner
    /\ Return(t)
    /\ UNCHANGED <<params, harness, counterA, tGlobal,
                   total, carry, lastRead, resetRun, flushed>>

\* (a flush that clears the count)
TFlushClears(t) ==
    /\ At(t, "tfl_body")
    /\ tGlobal' = Cleared
    /\ Return(t)
    /\ UNCHANGED <<params, harness, counterA, tGlock,
                   total, carry, lastRead, resetRun, flushed>>

\* TraditionalCounter_flush: an empty body
TFlush(t) ==
    /\ At(t, "tfl_body")
    /\ Return(t)
    /\ UNCHANGED <<params, harness, counterA, counterT,
                   total, carry, lastRead, resetRun, flushed>>

\* TraditionalCounter_get: pthread_mutex_lock(&mGlock)
TGetLock(t) ==
    /\ At(t, "tget_lock")
    /\ tGlock = NoOwner
    /\ tGlock' = t
    /\ Goto(t, "tget_read")
    /\ UNCHANGED <<params, harness, counterA, tGlobal, args, aThread, reg,
                   oCount,
                   total, carry, lastRead, resetRun, flushed>>

\* *oCount = mGlobal
TGetRead(t) ==
    /\ At(t, "tget_read")
    /\ oCount' = [oCount EXCEPT ![t] = tGlobal]
    /\ lastRead' = Read(Trad, tGlobal)
    /\ Goto(t, "tget_unlock")
    /\ UNCHANGED <<params, harness, counterA, counterT, args, aThread, reg,
                   total, carry, resetRun, flushed>>

\* pthread_mutex_unlock(&mGlock); return
TGetUnlock(t) ==
    /\ At(t, "tget_unlock")
    /\ tGlock' = NoOwner
    /\ Return(t)
    /\ UNCHANGED <<params, harness, counterA, tGlobal,
                   total, carry, lastRead, resetRun, flushed>>

\* TraditionalCounter_reset: pthread_mutex_lock(&mGlock)
TRsLock(t) ==
    /\ At(t, "trs_lock")
    /\ tGlock = NoOwner
    /\ tGlock' = t
    /\ Goto(t, "trs_zero")
    /\ UNCHANGED <<params, harness, counterA, tGlobal, args, aThread, reg,
                   oCount,
                   total, carry, lastRead, resetRun, flushed>>

\* mGlobal = 0
TRsZero(t) ==
    /\ At(t, "trs_zero")
    /\ tGlobal' = Cleared
    /\ Goto(t, "trs_unlock")
    /\ UNCHANGED <<params, harness, counterA, tGlock, args, aThread, reg,
                   oCount,
                   total, carry, lastRead, resetRun, flushed>>

\* pthread_mutex_unlock(&mGlock); return
TRsUnlock(t) ==
    /\ At(t, "trs_unlock")
    /\ tGlock' = NoOwner
    /\ total' = [total EXCEPT ![Trad] = 0]
    /\ carry' = [carry EXCEPT ![Trad] = 0]
    /\ lastRead' = Read(Trad, 0)
    /\ resetRun' = IF track /\ resetRun < 2 THEN resetRun + 1 ELSE resetRun
    /\ flushed' = {}
    /\ Return(t)
    /\ UNCHANGED <<params, harness, counterA, tGlobal>>

\* ------------------------------------------------- specifications

IncLabels   == {"inc_lockL", "inc_load", "inc_store", "inc_lockG", "inc_loadG",
                "inc_storeG", "inc_unlockG", "inc_zero", "inc_unlockL",
                "tinc_lock", "tinc_load", "tinc_store", "tinc_unlock"}
FlushLabels == {"fl_lockL", "fl_lockG", "fl_loadG", "fl_storeG", "fl_unlockG",
                "fl_zero", "fl_unlockL", "tfl_body"}
GetLabels   == {"get_lockG", "get_read", "get_unlockG",
                "tget_lock", "tget_read", "tget_unlock"}
ResetLabels == {"rs_lockG", "rs_lockL", "rs_zeroG", "rs_zeroL", "rs_unlockL",
                "rs_unlockG", "trs_lock", "trs_zero", "trs_unlock"}

\* No call is in flight.
Quiescent == \A t \in Workers : At(t, "idle")
\* No reset is in flight.
NoReset == \A t \in Workers : pc[t] \notin ResetLabels
\* Nothing but flushes is in flight.
OnlyFlushes == \A t \in Workers : pc[t] \in FlushLabels \cup {"idle"}
\* Worker t is the only one inside a call.
Alone(t) == \A u \in Workers \ {t} : At(u, "idle")

\* One statement of the call worker t is in.
Step(t) ==
    \/ IncLockL(t) \/ IncLoad(t) \/ IncStore(t)
    \/ IncLockG(t) \/ IncLoadG(t) \/ IncStoreG(t)
    \/ IncUnlockG(t) \/ IncZero(t) \/ IncUnlockL(t)
    \/ FlLockL(t) \/ FlLockG(t) \/ FlLoadG(t) \/ FlStoreG(t)
    \/ FlUnlockG(t) \/ FlZero(t) \/ FlUnlockL(t)
    \/ GetLockG(t) \/ GetRead(t) \/ GetUnlockG(t)
    \/ RsLockG(t) \/ RsLockL(t) \/ RsZeroG(t) \/ RsZeroL(t)
    \/ RsUnlockL(t) \/ RsUnlockG(t)
    \/ TIncLock(t) \/ TIncLoad(t) \/ TIncStore(t) \/ TIncUnlock(t)
    \/ TFlush(t)
    \/ TGetLock(t) \/ TGetRead(t) \/ TGetUnlock(t)
    \/ TRsLock(t) \/ TRsZero(t) \/ TRsUnlock(t)

\* Concurrent callers that keep the contract of the interface: increment, flush
\* and get run concurrently on any slots; reset runs only while no other call is
\* in flight (the harness resets only after it has joined its workers).
Next ==
    \E t \in Workers :
        \/ NoReset /\ CallIncrement(t)
        \/ NoReset /\ CallFlush(t)
        \/ NoReset /\ CallGet(t)
        \/ Quiescent /\ CallReset(t)
        \/ Step(t)

Spec == Init /\ [][Next]_vars

\* Callers that let nothing run beside an increment, a get or a reset (flushes
\* of several workers may overlap), with resetRun and flushed recorded.
SeqInit ==
    \E v \in {Approx, Trad}, n \in 1..MaxThreads, th \in 1..MaxThreshold :
        Created([t \in Threads |-> v], n, th, TRUE) /\ Standalone

SeqNext ==
    \E t \in Workers :
        \/ Quiescent /\ CallIncrement(t)
        \/ OnlyFlushes /\ CallFlush(t)
        \/ Quiescent /\ CallGet(t)
        \/ Quiescent /\ CallReset(t)
        \/ Step(t)

SeqSpec == SeqInit /\ [][SeqNext]_vars

\* Callers that break the contract: reset is called while other calls run.
RaceNext ==
    \E t \in Workers :
        \/ CallIncrement(t)
        \/ CallFlush(t)
        \/ CallGet(t)
        \/ CallReset(t)
        \/ Step(t)

RaceSpec == Init /\ [][RaceNext]_vars

\* The same callers on a TraditionalCounter alone.
TradRaceInit ==
    \E n \in 1..MaxThreads, th \in 1..MaxThreshold :
        Created([t \in Threads |-> Trad], n, th, FALSE) /\ Standalone

TradRaceNext ==
    \E t \in Workers :
        \/ CallIncrement(t)
        \/ CallFlush(t)
        \/ CallGet(t)
        \/ CallReset(t)
        \/ TIncLock(t) \/ TIncLoad(t) \/ TIncStore(t) \/ TIncUnlock(t)
        \/ TFlush(t)
        \/ TGetLock(t) \/ TGetRead(t) \/ TGetUnlock(t)
        \/ TRsLock(t) \/ TRsZero(t) \/ TRsUnlock(t)

TradRaceSpec == TradRaceInit /\ [][TradRaceNext]_vars

\* A driver that feeds one ApproximateCounter (through worker 1) and one
\* TraditionalCounter (through worker 2) the same increments, and reads both.
EquivInit ==
    \E n \in 1..MaxThreads, th \in 1..MaxThreshold :
        /\ Created([t \in Threads |-> IF t = 1 THEN Approx ELSE Trad], n, th, FALSE)
        /\ Standalone

EquivIncrement ==
    /\ At(1, "idle") /\ At(2, "idle")
    /\ \E s \in Slots, a \in Amounts :
          /\ Started(Approx) + a <= MaxCount
          /\ iThread' = [iThread EXCEPT ![1] = s, ![2] = s]
          /\ iAmount' = [iAmount EXCEPT ![1] = a, ![2] = a]
    /\ pc' = [pc EXCEPT ![1] = "inc_lockL", ![2] = "tinc_lock"]
    /\ UNCHANGED <<params, harness, counterA, counterT, aThread, reg, oCount,
                   total, carry, lastRead,
                   resetRun, flushed>>

EquivGet ==
    /\ At(1, "idle") /\ At(2, "idle")
    /\ pc' = [pc EXCEPT ![1] = "get_lockG", ![2] = "tget_lock"]
    /\ UNCHANGED <<params, harness, counterA, counterT, args, aThread, reg,
                   oCount, total, carry, lastRead,
                   resetRun, flushed>>

EquivNext ==
    \/ EquivIncrement
    \/ EquivGet
    \/ IncLockL(1) \/ IncLoad(1) \/ IncStore(1)
    \/ IncLockG(1) \/ IncLoadG(1) \/ IncStoreG(1)
    \/ IncUnlockG(1) \/ IncZero(1) \/ IncUnlockL(1)
    \/ GetLockG(1) \/ GetRead(1) \/ GetUnlockG(1)
    \/ TIncLock(2) \/ TIncLoad(2) \/ TIncStore(2) \/ TIncUnlock(2)
    \/ TGetLock(2) \/ TGetRead(2) \/ TGetUnlock(2)

EquivSpec == EquivInit /\ [][EquivNext]_vars

\* ------------------------------------------------------- properties

\* One caller (worker 1) that drives an ApproximateCounter call after call,
\* with snap recording what each call found.
SoloInit ==
    \E n \in 1..MaxThreads, th \in 1..MaxThreshold :
        Created([t \in Threads |-> Approx], n, th, TRUE) /\ Standalone

\* mIncrementPtr(counter, slot, amount)
SoloIncrement ==
    /\ At(1, "idle")
    /\ \E s \in Slots, a \in Amounts :
          /\ Started(Approx) + a <= MaxCount
          /\ iThread' = [iThread EXCEPT ![1] = s]
          /\ iAmount' = [iAmount EXCEPT ![1] = a]
          /\ snap' = [g |-> mGlobal, l |-> mLocal, s |-> s, a |-> a]
    /\ Goto(1, "inc_lockL")
    /\ flushed' = {}
    /\ UNCHANGED <<params, gAcq, bench, counterA, counterT, aThread, reg, oCount,
                   total, carry, lastRead, resetRun>>

\* mFlushPtr(counter, slot)
SoloFlush ==
    /\ At(1, "idle")
    /\ \E s \in Slots :
          /\ iThread' = [iThread EXCEPT ![1] = s]
          /\ snap' = [g |-> mGlobal, l |-> mLocal, s |-> s, a |-> 0]
    /\ Goto(1, "fl_lockL")
    /\ UNCHANGED <<params, gAcq, bench, counterA, counterT, iAmount, aThread, reg,
                   oCount, total, carry, lastRead, resetRun, flushed>>

\* mGetPtr(counter, &count)
SoloGet ==
    /\ At(1, "idle")
    /\ snap' = [g |-> mGlobal, l |-> mLocal, s |-> 0, a |-> 0]
    /\ Goto(1, "get_lockG")
    /\ UNCHANGED <<params, gAcq, bench, counterA, counterT, args, aThread, reg,
                   oCount, total, carry, lastRead, resetRun, flushed>>

SoloNext ==
    \/ SoloIncrement
    \/ SoloFlush
    \/ SoloGet
    \/ IncLockL(1) \/ IncLoad(1) \/ IncStore(1)
    \/ IncLockG(1) \/ IncLoadG(1) \/ IncStoreG(1)
    \/ IncUnlockG(1) \/ IncZero(1) \/ IncUnlockL(1)
    \/ FlLockL(1) \/ FlLockG(1) \/ FlLoadG(1) \/ FlStoreG(1)
    \/ FlUnlockG(1) \/ FlZero(1) \/ FlUnlockL(1)
    \/ GetLockG(1) \/ GetRead(1) \/ GetUnlockG(1)

SoloSpec == SoloInit /\ [][SoloNext]_vars

\* ------------------------------------------------ the benchmark harness

Min(a, b) == IF a < b THEN a ELSE b

\* The workers of a run: worker t is the thread created with mThread = t - 1.
Spawned == 1..iNumThreads

\* BenchCounter_benchApproximateCounter is entered with its arguments; no
\* counter exists yet.
BenchInit ==
    /\ Created([t \in Threads |-> Approx], 0, 0, FALSE)
    /\ \E n \in 1..Min(MaxWorkers, MaxThreads), th \in 1..MaxThreshold,
          k \in 0..MaxIncrements, w \in 0..MaxWarmups, h \in {MaxHotRuns} :
          /\ iNumThreads = n
          /\ iThreshold = th
          /\ iNumIncrements = k
          /\ iNumWarmups = w
          /\ iNumHotRuns = h
    /\ snap = [g |-> 0, l |-> <<>>, s |-> 0, a |-> 0]
    /\ gAcq = [t \in Workers |-> 0]
    /\ hpc = "dut"
    /\ aDut = 0
    /\ aRun = 0
    /\ aIncrement = [t \in Workers |-> 0]
    /\ wk = [t \in Workers |-> "off"]
    /\ records = <<>>
    /\ events = [d \in Duts |-> <<>>]
    /\ sweep = NoSweep

\* The harness does e to the instance under test.
Did(e) == events' = [events EXCEPT ![aDut] = Append(@, e)]

\* for (aDut = kBenchCounter_idxApprox; aDut < kBenchCounter_idxCount; ++aDut)
BenchDut ==
    /\ hpc = "dut"
    /\ hpc' = IF aDut < kBenchCounter_idxCount THEN "create" ELSE "done"
    /\ UNCHANGED <<params, counterA, counterT, pc, args, aThread, reg, oCount,
                   total, carry, lastRead, resetRun, flushed, snap, gAcq, inputs, aDut, aRun,
                   aIncrement, wk, records, events>>

\* mCreatePtr(&aBasePtr, &aOptions), and the workers' contexts
BenchCreate ==
    /\ hpc = "create"
    /\ IF DutName(aDut) = Approx
       THEN /\ mGlobal' = 0
            /\ mThreshold' = iThreshold
            /\ mThreads' = iNumThreads
            /\ mLocal' = [s \in 0..(iNumThreads - 1) |-> 0]
            /\ mGlock' = NoOwner
            /\ mLlock' = [s \in 0..(iNumThreads - 1) |-> NoOwner]
            /\ UNCHANGED counterT
       ELSE /\ tGlobal' = 0
            /\ tGlock' = NoOwner
            /\ UNCHANGED <<counterA, mThreshold, mThreads>>
    /\ iface' = [t \in Threads |-> DutName(aDut)]
    /\ total' = [total EXCEPT ![DutName(aDut)] = 0]
    /\ carry' = [carry EXCEPT ![DutName(aDut)] = 0]
    /\ lastRead' = Read(DutName(aDut), 0)
    /\ Did("create")
    /\ aRun' = 0
    /\ hpc' = "warm"
    /\ UNCHANGED <<track, pc, args, aThread, reg, oCount, resetRun, flushed,
                   snap, gAcq, inputs, aDut, aIncrement, wk, records>>

\* for (aRun = 0; aRun < iNumWarmups; ++aRun): the test, and the call of
\* BenchCounter_runWorkload
BenchWarm ==
    /\ hpc = "warm"
    /\ IF aRun < iNumWarmups
       THEN /\ hpc' = "warm_create"
            /\ Did("warmup")
            /\ aRun' = aRun
       ELSE /\ hpc' = "hot"
            /\ aRun' = 0
            /\ UNCHANGED events
    /\ UNCHANGED <<params, counterA, counterT, pc, args, aThread, reg, oCount,
                   total, carry, lastRead, resetRun, flushed, snap, gAcq, inputs, aDut,
                   aIncrement, wk, records>>

\* for (aRun = 0; aRun < iNumHotRuns; ++aRun): the test, and the call of
\* BenchCounter_runWorkload
BenchHot ==
    /\ hpc = "hot"
    /\ IF aRun < iNumHotRuns
       THEN hpc' = "hot_create" /\ Did("measured")
       ELSE hpc' = "destroy" /\ UNCHANGED events
    /\ UNCHANGED <<params, counterA, counterT, pc, args, aThread, reg, oCount,
                   total, carry, lastRead, resetRun, flushed, snap, gAcq, inputs, aDut, aRun,
                   aIncrement, wk, records>>

\* BenchCounter_runWorkload, first loop: pthread_create of one worker per
\* round, then on to the second loop
RunWorkloadCreate ==
    /\ hpc \in {"warm_create", "hot_create"}
    /\ IF aThread[Main] < iNumThreads
       THEN /\ wk' = [wk EXCEPT ![aThread[Main] + 1] = "loop"]
            /\ aIncrement' = [aIncrement EXCEPT ![aThread[Main] + 1] = 0]
            /\ gAcq' = [gAcq EXCEPT ![aThread[Main] + 1] = 0]
            /\ aThread' = [aThread EXCEPT ![Main] = @ + 1]
            /\ hpc' = hpc
       ELSE /\ aThread' = [aThread EXCEPT ![Main] = 0]
            /\ hpc' = IF hpc = "warm_create" THEN "warm_join" ELSE "hot_join"
            /\ UNCHANGED <<wk, aIncrement, gAcq>>
    /\ UNCHANGED <<params, counterA, counterT, pc, args, reg, oCount, total, carry, lastRead,
                   resetRun, flushed, snap, inputs, aDut, aRun, records, events>>

\* The worker the second loop of BenchCounter_runWorkload waits for has
\* returned.
JoinableAlways(t) == TRUE
Joinable(t) == wk[t] = "done"

\* BenchCounter_runWorkload, second loop: pthread_join of one worker per
\* round, then the return
RunWorkloadJoin ==
    /\ hpc \in {"warm_join", "hot_join"}
    /\ IF aThread[Main] < iNumThreads
       THEN /\ Joinable(aThread[Main] + 1)
            /\ wk' = [wk EXCEPT ![aThread[Main] + 1] = "off"]
            /\ aThread' = [aThread EXCEPT ![Main] = @ + 1]
            /\ hpc' = hpc
       ELSE /\ aThread' = [aThread EXCEPT ![Main] = 0]
            /\ hpc' = IF hpc = "warm_join" THEN "warm_reset" ELSE "hot_get"
            /\ wk' = wk
    /\ UNCHANGED <<params, counterA, counterT, pc, args, reg, oCount, total, carry, lastRead,
                   resetRun, flushed, snap, gAcq, inputs, aDut, aRun,
                   aIncrement, records, events>>

\* mGetPtr(aCounterPtr, &aGlobalCount)
BenchGet ==
    /\ hpc = "hot_get"
    /\ At(Main, "idle")
    /\ Goto(Main, IF iface[Main] = Approx THEN "get_lockG" ELSE "tget_lock")
    /\ Did("get")
    /\ hpc' = "hot_record"
    /\ UNCHANGED <<params, counterA, counterT, args, aThread, reg, oCount, total, carry, lastRead,
                   resetRun, flushed, snap, gAcq, inputs, aDut, aRun,
                   aIncrement, wk, records>>

\* (a harness that writes each record twice)
BenchRecordTwice ==
    /\ hpc = "hot_record"
    /\ At(Main, "idle")
    /\ records' = records \o << <<DutName(aDut), iNumThreads, iThreshold,
                                  oCount[Main]>>,
                                <<DutName(aDut), iNumThreads, iThreshold,
                                  oCount[Main]>> >>
    /\ Did("record")
    /\ hpc' = "hot_reset"
    /\ UNCHANGED <<params, counterA, counterT, pc, args, aThread, reg, oCount,
                   total, carry, lastRead, resetRun, flushed, snap, gAcq, inputs, aDut, aRun,
                   aIncrement, wk>>

\* fprintf(iOutputFilePtr, "%s,%u,%u,%f,%u\n", ...), once the get has returned
\* (the measured runtime is left out of the record)
BenchRecord ==
    /\ hpc = "hot_record"
    /\ At(Main, "idle")
    /\ records' = Append(records, <<DutName(aDut), iNumThreads, iThreshold,
                                    oCount[Main]>>)
    /\ Did("record")
    /\ hpc' = "hot_reset"
    /\ UNCHANGED <<params, counterA, counterT, pc, args, aThread, reg, oCount,
                   total, carry, lastRead, resetRun, flushed, snap, gAcq, inputs, aDut, aRun,
                   aIncrement, wk>>

\* mResetPtr(aCounterPtr)
BenchReset ==
    /\ hpc \in {"warm_reset", "hot_reset"}
    /\ At(Main, "idle")
    /\ Goto(Main, IF iface[Main] = Approx THEN "rs_lockG" ELSE "trs_lock")
    /\ Did("reset")
    /\ hpc' = IF hpc = "warm_reset" THEN "warm_next" ELSE "hot_next"
    /\ UNCHANGED <<params, counterA, counterT, args, aThread, reg, oCount, total, carry, lastRead,
                   resetRun, flushed, snap, gAcq, inputs, aDut, aRun,
                   aIncrement, wk, records>>

\* (a run loop that starts over with the warm-up runs)
BenchNextRunRestarts ==
    /\ hpc \in {"warm_next", "hot_next"}
    /\ At(Main, "idle")
    /\ aRun' = 0
    /\ hpc' = "warm"
    /\ UNCHANGED <<params, counterA, counterT, pc, args, aThread, reg, oCount,
                   total, carry, lastRead, resetRun, flushed, snap, gAcq, inputs, aDut,
                   aIncrement, wk, records, events>>

\* ++aRun, once the reset has returned
BenchNextRun ==
    /\ hpc \in {"warm_next", "hot_next"}
    /\ At(Main, "idle")
    /\ aRun' = aRun + 1
    /\ hpc' = IF hpc = "warm_next" THEN "warm" ELSE "hot"
    /\ UNCHANGED <<params, counterA, counterT, pc, args, aThread, reg, oCount,
                   total, carry, lastRead, resetRun, flushed, snap, gAcq, inputs, aDut,
                   aIncrement, wk, records, events>>

\* (a harness that goes on to the next instance without destroying this one)
BenchDestroySkipped ==
    /\ hpc = "destroy"
    /\ aDut' = aDut + 1
    /\ aRun' = 0
    /\ oCount' = [oCount EXCEPT ![Main] = 0]
    /\ hpc' = "dut"
    /\ UNCHANGED <<params, counterA, counterT, pc, args, aThread, reg, total, carry, lastRead,
                   resetRun, flushed, snap, gAcq, inputs, aIncrement, wk,
                   records, events>>

\* mDestroyPtr(aCounterPtr); free(...); ++aDut
BenchDestroy ==
    /\ hpc = "destroy"
    /\ IF DutName(aDut) = Approx
       THEN /\ mThreshold' = 0
            /\ mThreads' = 0
            /\ mLocal' = <<>>
            /\ mLlock' = <<>>
            /\ UNCHANGED <<mGlobal, mGlock, counterT>>
       ELSE UNCHANGED <<mThreshold, mThreads, counterA, counterT>>
    /\ Did("destroy")
    /\ aDut' = aDut + 1
    /\ aRun' = 0
    /\ oCount' = [oCount EXCEPT ![Main] = 0]
    /\ hpc' = "dut"
    /\ UNCHANGED <<iface, track, pc, args, aThread, reg, total, carry, lastRead, resetRun,
                   flushed, snap, gAcq, inputs, aIncrement, wk, records>>

\* (workers that all increment slot 0)
WorkerIncrementSlotZero(t) ==
    /\ wk[t] = "loop"
    /\ At(t, "idle")
    /\ aIncrement[t] < iNumIncrements
    /\ aIncrement' = [aIncrement EXCEPT ![t] = @ + 1]
    /\ iThread' = [iThread EXCEPT ![t] = 0]
    /\ iAmount' = [iAmount EXCEPT ![t] = 1]
    /\ Goto(t, IF iface[t] = Approx THEN "inc_lockL" ELSE "tinc_lock")
    /\ UNCHANGED <<params, counterA, counterT, aThread, reg, oCount, total, carry, lastRead,
                   resetRun, flushed, snap, gAcq, inputs, hpc, aDut, aRun, wk,
                   records, events>>

\* BenchCounter_worker: one round of its loop, the call
\* mIncrementPtr(aCounterPtr, aThread, 1)
WorkerIncrement(t) ==
    /\ wk[t] = "loop"
    /\ At(t, "idle")
    /\ aIncrement[t] < iNumIncrements
    /\ aIncrement' = [aIncrement EXCEPT ![t] = @ + 1]
    /\ iThread' = [iThread EXCEPT ![t] = t - 1]
    /\ iAmount' = [iAmount EXCEPT ![t] = 1]
    /\ Goto(t, IF iface[t] = Approx THEN "inc_lockL" ELSE "tinc_lock")
    /\ UNCHANGED <<params, counterA, counterT, aThread, reg, oCount, total, carry, lastRead,
                   resetRun, flushed, snap, gAcq, inputs, hpc, aDut, aRun, wk,
                   records, events>>

\* (a worker that returns without flushing its slot)
WorkerFlushSkipped(t) ==
    /\ wk[t] = "loop"
    /\ At(t, "idle")
    /\ aIncrement[t] >= iNumIncrements
    /\ wk' = [wk EXCEPT ![t] = "flush"]
    /\ UNCHANGED <<params, counterA, counterT, pc, args, aThread, reg, oCount,
                   total, carry, lastRead, resetRun, flushed, snap, gAcq, inputs, hpc, aDut, aRun,
                   aIncrement, records, events>>

\* BenchCounter_worker: the loop is over, mFlushPtr(aCounterPtr, aThread)
WorkerFlush(t) ==
    /\ wk[t] = "loop"
    /\ At(t, "idle")
    /\ aIncrement[t] >= iNumIncrements
    /\ wk' = [wk EXCEPT ![t] = "flush"]
    /\ iThread' = [iThread EXCEPT ![t] = t - 1]
    /\ Goto(t, IF iface[t] = Approx THEN "fl_lockL" ELSE "tfl_body")
    /\ UNCHANGED <<params, counterA, counterT, iAmount, aThread, reg, oCount,
                   total, carry, lastRead, resetRun, flushed, snap, gAcq, inputs, hpc, aDut, aRun,
                   aIncrement, records, events>>

\* BenchCounter_worker: return NULL, once the flush has returned
WorkerExit(t) ==
    /\ wk[t] = "flush"
    /\ At(t, "idle")
    /\ wk' = [wk EXCEPT ![t] = "done"]
    /\ UNCHANGED <<params, counterA, counterT, pc, args, aThread, reg, oCount,
                   total, carry, lastRead, resetRun, flushed, snap, gAcq, inputs, hpc, aDut, aRun,
                   aIncrement, records, events>>

BenchNext ==
    \/ BenchDut
    \/ BenchCreate
    \/ BenchWarm
    \/ BenchHot
    \/ RunWorkloadCreate
    \/ RunWorkloadJoin
    \/ BenchGet
    \/ BenchRecord
    \/ BenchReset
    \/ BenchNextRun
    \/ BenchDestroy
    \/ \E t \in Workers : WorkerIncrement(t) \/ WorkerFlush(t) \/ WorkerExit(t)
    \/ \E t \in Threads : Step(t)

BenchSpec == BenchInit /\ [][BenchNext]_vars

\* ------------------------------------------------ the two sub-commands

\* The conversion of a uint32_t argument to a uint8_t parameter.
ToUint8(v) == v % 256

\* Thread counts a trial of the model can run.
Runnable == 1..Min(MaxWorkers, MaxThreads)

\* Trials the history of a sweep records (the sweep goes on after them).
MaxTrials == Min(MaxWorkers, MaxThreads) + 1

Count(e, s) == Cardinality({i \in 1..Len(s) : s[i] = e})

\* main has parsed the options of sweep_threads and calls
\* BenchCounter_sweepThreads; the output file is open.  (Steps other than 0 and
\* 256 are given with bounds no thread count above Runnable lies between.)
SweepThreadsInit ==
    /\ Created([t \in Threads |-> Approx], 0, 0, FALSE)
    /\ \E lo \in Runnable, hi \in Runnable \cup {257, UINT32_MAX},
          st \in {0, 1, 256} :
          /\ st = 1 => hi \in Runnable
          /\ hi = UINT32_MAX => st = 0
          /\ sweep = [cmd |-> "sweep_threads",
                      mMinThreads |-> lo, mMaxThreads |-> hi, mStep |-> st,
                      mThreshold |-> 1, mIncrements |-> 1, mWarmups |-> 0,
                      mHotruns |-> 1,
                      aThreads |-> lo,
                      trials |-> <<>>, made |-> 0, freed |-> 0,
                      written |-> 0]
    /\ iNumThreads = 0 /\ iThreshold = 0 /\ iNumIncrements = 0
    /\ iNumWarmups = 0 /\ iNumHotRuns = 0
    /\ snap = [g |-> 0, l |-> <<>>, s |-> 0, a |-> 0]
    /\ gAcq = [t \in Workers |-> 0]
    /\ hpc = "sweep"
    /\ aDut = 0
    /\ aRun = 0
    /\ aIncrement = [t \in Workers |-> 0]
    /\ wk = [t \in Workers |-> "off"]
    /\ records = <<>>
    /\ events = [d \in Duts |-> <<>>]

\* main has parsed the options of sweep_threshold and calls
\* BenchCounter_sweepThreshold; the output file is open.
SweepThresholdInit ==
    /\ Created([t \in Threads |-> Approx], 0, 0, FALSE)
    /\ \E n \in Runnable, th \in 1..MaxThreshold, k \in 0..MaxSteps :
          sweep = [cmd |-> "sweep_threshold",
                   mNumThreads |-> n, mStartThreshold |-> th, mSteps |-> k,
                   mIncrements |-> 1, mWarmups |-> 0, mHotruns |-> 1,
                   aThreshold |-> th, aStep |-> 0,
                   trials |-> <<>>, made |-> 0, freed |-> 0,
                   written |-> 0]
    /\ iNumThreads = 0 /\ iThreshold = 0 /\ iNumIncrements = 0
    /\ iNumWarmups = 0 /\ iNumHotRuns = 0
    /\ snap = [g |-> 0, l |-> <<>>, s |-> 0, a |-> 0]
    /\ gAcq = [t \in Workers |-> 0]
    /\ hpc = "sweep"
    /\ aDut = 0
    /\ aRun = 0
    /\ aIncrement = [t \in Workers |-> 0]
    /\ wk = [t \in Workers |-> "off"]
    /\ records = <<>>
    /\ events = [d \in Duts |-> <<>>]

\* The call BenchCounter_benchApproximateCounter(threads, threshold,
\* mIncrements, mWarmups, mHotruns, aOutputFilePtr): the arguments become the
\* parameters, threads through the uint8_t iNumThreads.
CallTrial(threads, threshold) ==
    /\ iNumThreads' = ToUint8(threads)
    /\ iThreshold' = threshold
    /\ iNumIncrements' = sweep.mIncrements
    /\ iNumWarmups' = sweep.mWarmups
    /\ iNumHotRuns' = sweep.mHotruns
    /\ aDut' = 0
    /\ aRun' = 0
    /\ hpc' = "dut"

\* history: the trial that has returned, with what the sub-command asked for
\* (threads, threshold), the thread count the trial ran with, and the creates
\* and destroys it made (events starts over with the next trial).
Finished(threads, threshold) ==
    IF Len(sweep.trials) < MaxTrials
    THEN [sweep EXCEPT
            !.trials = Append(@, <<threads, threshold, iNumThreads>>),
            !.made = @ + Count("create", events[0])
                       + Count("create", events[1]),
            !.freed = @ + Count("destroy", events[0])
                        + Count("destroy", events[1]),
            !.written = Len(records)]
    ELSE sweep

\* history: the records of the trials in sweep.trials.
Written == SubSeq(records, 1, Finished(0, 0).written)

\* for (...; aThreads <= mMaxThreads; ...): the test, and the call of the trial
SweepThreadsTest ==
    /\ hpc = "sweep"
    /\ sweep.cmd = "sweep_threads"
    /\ IF LeqU32(sweep.aThreads, sweep.mMaxThreads)
       THEN CallTrial(sweep.aThreads, sweep.mThreshold)
       ELSE /\ hpc' = "returned"
            /\ UNCHANGED <<iNumThreads, iThreshold, iNumIncrements, iNumWarmups,
                           iNumHotRuns, aDut, aRun>>
    /\ UNCHANGED <<params, counterA, counterT, pc, args, aThread, reg, oCount,
                   total, carry, lastRead, resetRun, flushed, snap, gAcq, aIncrement, wk,
                   records, events, sweep>>

\* the trial has returned; fflush; aThreads += mStep
SweepThreadsNext ==
    /\ hpc = "done"
    /\ sweep.cmd = "sweep_threads"
    /\ sweep' = [Finished(sweep.aThreads, iThreshold)
                    EXCEPT !.aThreads = AddU32(@, sweep.mStep)]
    /\ events' = [d \in Duts |-> <<>>]
    /\ records' = Written
    /\ hpc' = "sweep"
    /\ UNCHANGED <<params, counterA, counterT, pc, args, aThread, reg, oCount,
                   total, carry, lastRead, resetRun, flushed, snap, gAcq, iNumThreads,
                   iThreshold, iNumIncrements, iNumWarmups, iNumHotRuns, aDut,
                   aRun, aIncrement, wk>>

\* for (aStep = 0; aStep < mSteps; ++aStep): the test, and the call of the
\* trial
SweepThresholdTest ==
    /\ hpc = "sweep"
    /\ sweep.cmd = "sweep_threshold"
    /\ IF sweep.aStep < sweep.mSteps
       THEN CallTrial(sweep.mNumThreads, sweep.aThreshold)
       ELSE /\ hpc' = "returned"
            /\ UNCHANGED <<iNumThreads, iThreshold, iNumIncrements, iNumWarmups,
                           iNumHotRuns, aDut, aRun>>
    /\ UNCHANGED <<params, counterA, counterT, pc, args, aThread, reg, oCount,
                   total, carry, lastRead, resetRun, flushed, snap, gAcq, aIncrement, wk,
                   records, events, sweep>>

\* the trial has returned; fflush; aThreshold *= 2; ++aStep
SweepThresholdNext ==
    /\ hpc = "done"
    /\ sweep.cmd = "sweep_threshold"
    /\ sweep' = [Finished(sweep.mNumThreads, sweep.aThreshold)
                    EXCEPT !.aThreshold = AddU32(@, @),
                           !.aStep = @ + 1]
    /\ events' = [d \in Duts |-> <<>>]
    /\ records' = Written
    /\ hpc' = "sweep"
    /\ UNCHANGED <<params, counterA, counterT, pc, args, aThread, reg, oCount,
                   total, carry, lastRead, resetRun, flushed, snap, gAcq, iNumThreads,
                   iThreshold, iNumIncrements, iNumWarmups, iNumHotRuns, aDut,
                   aRun, aIncrement, wk>>

SweepInit == SweepThreadsInit \/ SweepThresholdInit

SweepNext ==
    \/ SweepThreadsTest
    \/ SweepThreadsNext
    \/ SweepThresholdTest
    \/ SweepThresholdNext
    \/ BenchNext

SweepSpec == SweepInit /\ [][SweepNext]_vars

\* ------------------------------------------------ one workload, by itself

\* BenchCounter_runWorkload has created its iNumThreads workers on a fresh
\* ApproximateCounter and waits for them: the measured run of a trial without
\* warm-up runs.
WorkloadInit ==
    /\ \E n \in 1..Min(MaxWorkers, MaxThreads), th \in 1..MaxThreshold,
          k \in 0..MaxUnits :
          /\ Created([t \in Threads |-> Approx], n, th, FALSE)
          /\ iNumThreads = n
          /\ iThreshold = th
          /\ iNumIncrements = k
    /\ iNumWarmups = 0
    /\ iNumHotRuns = 1
    /\ snap = [g |-> 0, l |-> <<>>, s |-> 0, a |-> 0]
    /\ gAcq = [t \in Workers |-> 0]
    /\ hpc = "hot_join"
    /\ aDut = 0
    /\ aRun = 0
    /\ aIncrement = [t \in Workers |-> 0]
    /\ wk = [t \in Workers |-> IF t \in Spawned THEN "loop" ELSE "off"]
    /\ records = <<>>
    /\ events = [d \in Duts |-> IF d = 0 THEN <<"create", "measured">> ELSE <<>>]
    /\ sweep = NoSweep

WorkloadNext ==
    \E t \in Workers :
        \/ WorkerIncrement(t)
        \/ WorkerFlush(t)
        \/ WorkerExit(t)
        \/ IncLockL(t) \/ IncLoad(t) \/ IncStore(t) \/ IncLockG(t)
        \/ IncLoadG(t) \/ IncStoreG(t) \/ IncUnlockG(t) \/ IncZero(t)
        \/ IncUnlockL(t)
        \/ FlLockL(t) \/ FlLockG(t) \/ FlLoadG(t) \/ FlStoreG(t)
        \/ FlUnlockG(t) \/ FlZero(t) \/ FlUnlockL(t)

WorkloadSpec == WorkloadInit /\ [][WorkloadNext]_vars

\* ------------------------------------------- one run, from call to return

\* BenchCounter_runWorkload is called for the measured run of a trial without
\* warm-up runs, on the ApproximateCounter or, the first instance destroyed,
\* on the TraditionalCounter.
RunInit ==
    /\ \E d \in Duts, n \in 1..Min(MaxWorkers, MaxThreads),
          th \in 1..MaxThreshold, k \in 0..MaxIncrements :
          /\ IF d = 0
             THEN Created([t \in Threads |-> Approx], n, th, FALSE)
             ELSE Created([t \in Threads |-> Trad], 0, 0, FALSE)
          /\ iNumThreads = n
          /\ iThreshold = th
          /\ iNumIncrements = k
          /\ aDut = d
          /\ gAcq = [t \in Workers |-> IF d > 0 /\ t <= n THEN k \div th ELSE 0]
          /\ aIncrement = [t \in Workers |-> IF d > 0 /\ t <= n THEN k ELSE 0]
          /\ records = IF d = 0 THEN <<>> ELSE << <<Approx, n, th, n * k>> >>
          /\ events = [e \in Duts |->
                          IF e < d THEN <<"create", "measured", "get", "record",
                                          "reset", "destroy">>
                          ELSE IF e = d THEN <<"create", "measured">>
                          ELSE <<>>]
    /\ iNumWarmups = 0
    /\ iNumHotRuns = 1
    /\ snap = [g |-> 0, l |-> <<>>, s |-> 0, a |-> 0]
    /\ hpc = "hot_create"
    /\ aRun = 0
    /\ wk = [t \in Workers |-> "off"]
    /\ sweep = NoSweep

\* One step of worker t of the run.
RunStep(t) ==
    \/ WorkerIncrement(t)
    \/ WorkerFlush(t)
    \/ WorkerExit(t)
    \/ IncLockL(t) \/ IncLoad(t) \/ IncStore(t) \/ IncLockG(t)
    \/ IncLoadG(t) \/ IncStoreG(t) \/ IncUnlockG(t) \/ IncZero(t)
    \/ IncUnlockL(t)
    \/ FlLockL(t) \/ FlLockG(t) \/ FlLoadG(t) \/ FlStoreG(t)
    \/ FlUnlockG(t) \/ FlZero(t) \/ FlUnlockL(t)
    \/ TIncLock(t) \/ TIncLoad(t) \/ TIncStore(t) \/ TIncUnlock(t)
    \/ TFlush(t)

\* One step of the thread inside BenchCounter_runWorkload.
RunMain == RunWorkloadCreate \/ RunWorkloadJoin

RunNext == RunMain \/ \E t \in Workers : RunStep(t)

RunSpec == RunInit /\ [][RunNext]_vars

\* The scheduler lets every thread that can take a step take one eventually.
RunFairness == WF_vars(RunMain) /\ \A t \in Workers : WF_vars(RunStep(t))

FairRunSpec == RunSpec /\ RunFairness

\* One step of the thread that runs the sub-command, the trials and, in them,
\* get and reset; one step of worker t.
SweepMain ==
    \/ SweepThreadsTest \/ SweepThreadsNext
    \/ SweepThresholdTest \/ SweepThresholdNext
    \/ BenchDut \/ BenchCreate \/ BenchWarm \/ BenchHot
    \/ RunWorkloadCreate \/ RunWorkloadJoin
    \/ BenchGet \/ BenchRecord \/ BenchReset \/ BenchNextRun \/ BenchDestroy
    \/ Step(Main)
SweepWorker(t) ==
    WorkerIncrement(t) \/ WorkerFlush(t) \/ WorkerExit(t) \/ Step(t)

\* The scheduler lets every thread that can take a step take one eventually.
FairSweepSpec ==
    SweepSpec /\ WF_vars(SweepMain) /\ \A t \in Workers : WF_vars(SweepWorker(t))

\* Every worker drives the ApproximateCounter / the TraditionalCounter.
OnApprox == \A t \in Workers : iface[t] = Approx
OnTrad   == \A t \in Workers : iface[t] = Trad

\* Worker t has added mLocal[iThread] to mGlobal and has not cleared it yet.
InMerge(t) == pc[t] \in {"inc_unlockG", "inc_zero", "fl_unlockG", "fl_zero"}

RECURSIVE MergingUpTo(_)
MergingUpTo(n) ==
    IF n = 0 THEN 0
    ELSE (IF InMerge(n) THEN mLocal[iThread[n]] ELSE 0) + MergingUpTo(n - 1)

\* The local counts that are, at this instant, also part of mGlobal.
Merging == MergingUpTo(MaxWorkers)

\* C1: sloppy accounting.  Whenever no call is in flight on an
\* ApproximateCounter, mGlobal plus the sum of all mLocal[i] equals the sum of
\* the amounts of the increments made since the last reset (or since create).
C1_SloppyAccounting ==
    (OnApprox /\ Quiescent) => mGlobal + SumLocal = total[Approx]

\* C1 witness: increments of different amounts have completed, part of their
\* sum sits in mGlobal and part in a local count.
C1_Witness ==
    /\ OnApprox /\ Quiescent
    /\ mGlobal > 0 /\ SumLocal > 0
    /\ mGlobal + SumLocal = MaxCount
    /\ total[Approx] = MaxCount

\* C2: exactness of the baseline.  Whenever no call is in flight on a
\* TraditionalCounter its count is the sum of the amounts of all increments
\* since the last reset, and a get that runs alone returns exactly that sum,
\* whatever the interleaving of the increments was.
C2_ExactBaseline ==
    OnTrad =>
        /\ Quiescent => tGlobal = total[Trad]
        /\ \A t \in Workers :
              (At(t, "tget_unlock") /\ Alone(t)) => oCount[t] = total[Trad]

\* C2 witness: a get that runs alone has read the full count.
C2_Witness ==
    /\ OnTrad
    /\ \E t \in Workers :
          At(t, "tget_unlock") /\ Alone(t) /\ oCount[t] = MaxCount
    /\ total[Trad] = MaxCount

\* C3: post-flush exactness.  Once a flush has completed for every slot of an
\* ApproximateCounter, with no increment called since, every mLocal[i] is 0,
\* mGlobal is the exact sum of the amounts since the last reset, and a get
\* returns that sum.
C3_PostFlushExact ==
    (OnApprox /\ flushed = Slots) =>
        /\ \A s \in Slots : mLocal[s] = 0
        /\ mGlobal = total[Approx]
        /\ \A t \in Workers : At(t, "get_unlockG") => oCount[t] = total[Approx]

\* C3 witness: two slots were flushed after increments and a get has read.
C3_Witness ==
    /\ OnApprox /\ flushed = Slots /\ mThreads = 2
    /\ total[Approx] = MaxCount
    /\ \E t \in Workers : At(t, "get_unlockG") /\ oCount[t] = MaxCount

\* Slot s is being merged by an increment that found it at the threshold.
IncMerging(s) ==
    \E t \in Workers :
        /\ iThread[t] = s
        /\ pc[t] \in {"inc_lockG", "inc_loadG", "inc_storeG", "inc_unlockG", "inc_zero"}

\* C4: bounded staleness.  On an ApproximateCounter every mLocal[i] is at most
\* mThreshold - 1 unless an increment on slot i is in the middle of merging it,
\* and a get that runs alone returns a value less than mThreads * mThreshold
\* below the true total.
C4_BoundedStaleness ==
    OnApprox =>
        /\ \A s \in Slots : ~IncMerging(s) => mLocal[s] <= mThreshold - 1
        /\ \A t \in Workers :
              (At(t, "get_unlockG") /\ Alone(t)) =>
                  /\ oCount[t] <= total[Approx]
                  /\ total[Approx] - oCount[t] < mThreads * mThreshold

\* C4 witness: the boundary, every slot exactly at mThreshold - 1 and a get
\* that returned 0.
C4_Witness ==
    /\ OnApprox /\ mThreads = 2 /\ mThreshold >= 2
    /\ \A s \in Slots : mLocal[s] = mThreshold - 1
    /\ \E t \in Workers : At(t, "get_unlockG") /\ Alone(t) /\ oCount[t] = 0
    /\ total[Approx] = mThreads * (mThreshold - 1)

\* C5: lower bound.  Every value a get of an ApproximateCounter returns, also
\* while increments and flushes are in flight, is at most the sum of the
\* amounts of the increments started since the last reset.
C5_GetLowerBound ==
    OnApprox =>
        \A t \in Workers : At(t, "get_unlockG") => oCount[t] <= Started(Approx)

\* C5 witness: a get returned a positive value, below the sum started, while
\* another worker was inside an increment or a flush.
C5_Witness ==
    /\ OnApprox
    /\ \E t, u \in Workers :
          /\ At(t, "get_unlockG") /\ oCount[t] > 0
          /\ oCount[t] < Started(Approx)
          /\ pc[u] \in IncLabels \cup FlushLabels

\* Worker a is about to lock a mutex that worker b holds.
BlockedOn(a, b) ==
    /\ a # b
    /\ \/ pc[a] \in {"inc_lockG", "fl_lockG", "get_lockG", "rs_lockG"} /\ mGlock = b
       \/ pc[a] \in {"inc_lockL", "fl_lockL"} /\ mLlock[iThread[a]] = b
       \/ pc[a] = "rs_lockL" /\ mLlock[aThread[a]] = b

\* C6: no deadlock between flush/increment and reset.  No state has a worker
\* inside flush or increment and a worker inside reset each blocked on a mutex
\* the other holds.
C6_NoDeadlock ==
    OnApprox =>
        \A a, b \in Workers :
            (pc[a] \in IncLabels \cup FlushLabels /\ pc[b] \in ResetLabels)
                => ~(BlockedOn(a, b) /\ BlockedOn(b, a))

LocalLockLabels   == {"inc_lockL", "fl_lockL", "rs_lockL"}
LocalUnlockLabels == {"inc_unlockL", "fl_unlockL", "rs_unlockL"}

\* C7: system-wide lock order.  A worker that holds the global mutex neither
\* locks nor unlocks a local mutex: every local mutex is locked before the
\* global one and unlocked after it, in increment, flush and reset.
C7_LockOrder ==
    OnApprox =>
        \A t \in Workers :
            mGlock = t => pc[t] \notin LocalLockLabels \cup LocalUnlockLabels

\* C8 as stated: in every state of concurrent increments and flushes, the
\* states inside a call included, mGlobal plus the sum of all mLocal[i] equals
\* the total of the increments applied so far.
C8_RunningInvariantEveryInstant ==
    (OnApprox /\ NoReset) => mGlobal + SumLocal = total[Approx]

\* C8 amended: the equation holds in every state in which no worker is between
\* adding mLocal[slot] to mGlobal and clearing mLocal[slot]; in general the sum
\* exceeds the total by exactly the local counts being merged at that instant.
C8_RunningInvariant ==
    (OnApprox /\ NoReset) => mGlobal + SumLocal - Merging = total[Approx]

\* C8 witness: a worker has merged a non-zero local count and not cleared it
\* yet, while another worker is inside an increment or flush on another slot.
C8_Witness ==
    /\ OnApprox
    /\ \E t, u \in Workers :
          /\ InMerge(t) /\ mLocal[iThread[t]] > 0
          /\ pc[u] \in (IncLabels \cup FlushLabels) \ {"inc_lockL", "fl_lockL"}
          /\ iThread[u] # iThread[t]

\* C9: idempotent reset.  From the completion of a reset until the next
\* increment or flush call (so also after a second reset in a row) every count
\* of the instance is 0, a get returns 0, and, with no call in flight, the
\* instance is in the state create left it in.
C9_ResetIdempotent ==
    resetRun >= 1 =>
        /\ OnApprox => /\ mGlobal = 0
                       /\ \A s \in Slots : mLocal[s] = 0
                       /\ total[Approx] = 0
        /\ OnTrad => tGlobal = 0 /\ total[Trad] = 0
        /\ \A t \in Workers :
              pc[t] \in {"get_unlockG", "tget_unlock"} => oCount[t] = 0
        /\ Quiescent => /\ mGlock = NoOwner /\ tGlock = NoOwner
                        /\ \A s \in Slots : mLlock[s] = NoOwner

\* C9 witness: a get reads after two resets in a row.
C9_Witness ==
    /\ resetRun = 2
    /\ \E t \in Workers : pc[t] \in {"get_unlockG", "tget_unlock"} /\ oCount[t] = 0

\* C10: threshold 1.  An ApproximateCounter with mThreshold = 1 and a
\* TraditionalCounter fed the same increments hold the same count after every
\* increment, their gets return the same value, and every mLocal[i] is 0
\* whenever no increment is in flight.
C10_ThresholdOneEquiv ==
    mThreshold = 1 =>
        /\ (At(1, "idle") /\ At(2, "idle")) => GetValue = tGlobal
        /\ (At(1, "get_unlockG") /\ At(2, "tget_unlock")) => oCount[1] = oCount[2]
        /\ At(1, "idle") => \A s \in Slots : mLocal[s] = 0

\* C10 witness: both gets have read the count of several increments.
C10_Witness ==
    /\ mThreshold = 1
    /\ At(1, "get_unlockG") /\ At(2, "tget_unlock")
    /\ oCount[1] = MaxCount /\ oCount[2] = MaxCount

\* The statements of increment and flush between locking and unlocking the
\* slot's mutex.
InSlotLabels == {"inc_load", "inc_store", "inc_lockG", "inc_loadG", "inc_storeG",
                 "inc_unlockG", "inc_zero", "inc_unlockL",
                 "fl_lockG", "fl_loadG", "fl_storeG", "fl_unlockG", "fl_zero",
                 "fl_unlockL"}

\* C12: same-slot serialisation.  At most one worker at a time is between the
\* lock and the unlock of a slot's mutex in increment or flush, that worker
\* owns the mutex, and once all calls have returned mGlobal plus the sum of
\* all mLocal[i] is the sum of all amounts.
C12_SameSlotSerial ==
    OnApprox =>
        /\ \A a, b \in Workers :
              (pc[a] \in InSlotLabels /\ pc[b] \in InSlotLabels
                  /\ iThread[a] = iThread[b]) => a = b
        /\ \A a \in Workers :
              pc[a] \in InSlotLabels => mLlock[iThread[a]] = a
        /\ Quiescent => mGlobal + SumLocal = total[Approx]

\* C12 witness: a worker has read a non-zero local count inside an increment
\* while another worker waits for the mutex of the same slot.
C12_Witness ==
    /\ OnApprox
    /\ \E a, b \in Workers :
          /\ a # b /\ iThread[a] = iThread[b]
          /\ At(a, "inc_store") /\ reg[a] > 0
          /\ pc[b] \in {"inc_lockL", "fl_lockL"}
          /\ mLlock[iThread[b]] = a

\* C13: get returns the global count plus all unflushed local counts.  The
\* value a get that runs alone on an ApproximateCounter writes to *oCount is
\* mGlobal plus the sum of all mLocal[i].
C13_GetIncludesLocals ==
    OnApprox =>
        \A t \in Workers :
            (At(t, "get_unlockG") /\ Alone(t)) => oCount[t] = mGlobal + SumLocal

\* C17: flush of a TraditionalCounter is a no-op.  In any state, whatever the
\* slot and whatever the other workers are doing, a flush can run without
\* waiting for the mutex, and the step that runs it leaves the count and the
\* mutex as they are.
C17_TradFlushNoOp ==
    /\ [](\A t \in Workers : At(t, "tfl_body") => ENABLED TFlush(t))
    /\ [][\A t \in Workers :
             (At(t, "tfl_body") /\ pc'[t] = "idle")
                 => (tGlobal' = tGlobal /\ tGlock' = tGlock)]_vars

\* C17 witness: a flush is about to run while the count is non-zero and
\* another worker holds the mutex.
C17_Witness ==
    /\ OnTrad
    /\ \E t, u \in Workers :
          /\ At(t, "tfl_body") /\ tGlobal > 0
          /\ u # t /\ tGlock = u

\* C18: merge step order.  In flush and in the merge inside increment the
\* local count is cleared while the global mutex is still held: a worker about
\* to clear mLocal[slot] owns mGlock and the slot's mutex.
C18_MergeStepOrder ==
    OnApprox =>
        \A t \in Workers :
            pc[t] \in {"inc_zero", "fl_zero"}
                => (mGlock = t /\ mLlock[iThread[t]] = t)

\* C19: reset mutates only while holding everything.  A worker about to clear
\* a count in reset (mGlobal, or any mLocal[i]) owns the global mutex and the
\* mutex of every slot: it has locked them all before the first write and has
\* released none before the last.
C19_ResetHoldsAll ==
    OnApprox =>
        \A t \in Workers :
            pc[t] \in {"rs_zeroG", "rs_zeroL"}
                => (mGlock = t /\ \A s \in Slots : mLlock[s] = t)

\* Every slot but s holds what the last call found in it.
OthersKept(s) == \A j \in Slots \ {s} : mLocal[j] = snap.l[j]

DutCount == IF DutName(aDut) = Approx THEN mGlobal ELSE tGlobal
DutClear ==
    IF DutName(aDut) = Approx
    THEN mGlobal = 0 /\ \A s \in Slots : mLocal[s] = 0
    ELSE tGlobal = 0

\* C14: harness final count.  For both variants, whatever the threshold, the
\* number of workers and of increments, and however many runs came before:
\* when a run's workers are joined the count is iNumThreads * iNumIncrements
\* (with every local count flushed), the get of a measured run returns that
\* value and every record carries it, and the counts are all 0 again when the
\* next run starts.
C14_HarnessFinalCount ==
    LET final == iNumThreads * iNumIncrements
    IN  /\ hpc \in {"warm_reset", "hot_get"} =>
              /\ DutCount = final
              /\ DutName(aDut) = Approx => \A s \in Slots : mLocal[s] = 0
        /\ (hpc = "hot_record" /\ At(Main, "idle")) => oCount[Main] = final
        /\ \A i \in 1..Len(records) : records[i][4] = final
        /\ hpc \in {"warm", "hot", "destroy"} => DutClear

\* C14 witness: after a warm-up run, a measured run of two workers on the
\* ApproximateCounter whose increments stayed below the threshold has been
\* read.
C14_Witness ==
    /\ hpc = "hot_record" /\ At(Main, "idle")
    /\ DutName(aDut) = Approx
    /\ iNumThreads = 2 /\ iNumIncrements >= 1 /\ iNumWarmups >= 1
    /\ iNumIncrements < mThreshold
    /\ oCount[Main] = 2 * iNumIncrements

\* No worker thread exists: every worker created has returned and was joined.
WorkersJoined == \A t \in Workers : wk[t] = "off" /\ At(t, "idle")

\* The harness thread is inside BenchCounter_runWorkload.
InRunWorkload == hpc \in {"warm_create", "hot_create", "warm_join", "hot_join"}

\* C15: harness quiescence.  Outside BenchCounter_runWorkload no worker
\* thread exists: the harness thread calls get, reset and destroy, and
\* runWorkload returns, only when every worker it created has finished its
\* flush and has been joined.
C15_HarnessQuiescence ==
    /\ ~InRunWorkload => WorkersJoined
    /\ pc[Main] # "idle" => WorkersJoined
    /\ \A t \in Workers : wk[t] = "done" => At(t, "idle")

\* C15 witness: the harness thread reads the count of a run of two workers
\* that both incremented, all joined.
C15_Witness ==
    /\ pc[Main] \in {"get_read", "tget_read"}
    /\ iNumThreads = 2 /\ iNumIncrements >= 1
    /\ DutCount = 2 * iNumIncrements
    /\ WorkersJoined

\* n times the sequence s, one after the other.
RECURSIVE Times(_, _)
Times(n, s) == IF n = 0 THEN <<>> ELSE s \o Times(n - 1, s)

\* What the harness does to one instance, start to end.
Trial ==
    <<"create">>
    \o Times(iNumWarmups, <<"warmup", "reset">>)
    \o Times(iNumHotRuns, <<"measured", "get", "record", "reset">>)
    \o <<"destroy">>

IsPrefix(s, t) == Len(s) <= Len(t) /\ s = SubSeq(t, 1, Len(s))

\* C16: trial phase order.  What the harness has done to an instance so far is
\* always a prefix of: create, iNumWarmups times (run, reset), iNumHotRuns
\* times (run, get, record, reset), destroy; it is the whole of it for every
\* instance when the harness is done, and nothing is done to an instance
\* before the one ahead of it is destroyed.
C16_TrialPhaseOrder ==
    /\ \A d \in Duts : IsPrefix(events[d], Trial)
    /\ hpc = "done" => \A d \in Duts : events[d] = Trial
    /\ \A d \in Duts \ {0} : events[d] # <<>> => events[d - 1] = Trial

\* C16 witness: the harness is done after a warm-up run and a measured run on
\* each of the two instances.
C16_Witness ==
    /\ hpc = "done"
    /\ iNumWarmups >= 1 /\ iNumHotRuns >= 1
    /\ \A d \in Duts : Len(events[d]) = 2 + 2 * iNumWarmups + 4 * iNumHotRuns
    /\ Len(records) = kBenchCounter_idxCount * iNumHotRuns

\* Labels of an increment that are not inside its merge.
FastLabels == {"inc_lockL", "inc_load", "inc_store", "inc_unlockL"}

\* Worker t takes a step of its own.
Moves(t) == pc'[t] # pc[t]

\* The steps of an increment outside its merge touch nothing but the caller's
\* slot; an increment that leaves its slot below the threshold has no merge.
FastPathFrame ==
    \A t \in Workers :
        /\ (pc[t] \in FastLabels /\ Moves(t)) =>
              /\ mGlobal' = mGlobal
              /\ mGlock' = mGlock
              /\ gAcq'[t] = gAcq[t]
              /\ \A j \in Slots : j # iThread[t] => mLocal'[j] = mLocal[j]
        /\ (At(t, "inc_store") /\ Moves(t)
              /\ mLocal'[iThread[t]] < mThreshold) => pc'[t] = "inc_unlockL"
        /\ (At(t, "inc_unlockL") /\ Moves(t)) => pc'[t] = "idle"

\* Between its calls a worker that has made k unit increments has taken the
\* global lock inside increment k \div mThreshold times and holds the rest in
\* its slot.
Amortised ==
    \A t \in Spawned :
        /\ (wk[t] = "loop" /\ At(t, "idle")) =>
              /\ gAcq[t] = aIncrement[t] \div mThreshold
              /\ mLocal[t - 1] = aIncrement[t] % mThreshold
        /\ wk[t] \in {"flush", "done"} =>
              gAcq[t] = iNumIncrements \div mThreshold

\* C20: fast-path frame and amortisation.  An increment whose resulting
\* mLocal[iThread] is below mThreshold never takes mGlock and changes nothing
\* but mLocal[iThread]; a worker that makes K unit increments on its own slot
\* from mLocal = 0 takes mGlock inside increment exactly K \div mThreshold
\* times.
C20_FastPathAmortised == []Amortised /\ [][FastPathFrame]_vars

\* C20 witness: a worker ends the last of three unit increments on the fast
\* path, one merge behind it with threshold 2, while the other worker holds
\* mGlock.
C20_Witness ==
    /\ iNumIncrements = 3 /\ mThreshold = 2
    /\ aIncrement[1] = 3
    /\ At(1, "inc_unlockL")
    /\ mLocal[0] = 1
    /\ gAcq[1] = 1
    /\ mGlock = 2

\* Worker t of the harness is inside a call on the counter.
Calling(t) == wk[t] # "off" /\ ~At(t, "idle")

\* C21: slot exclusivity in a run.  The workers of a run are the first
\* iNumThreads ones, the slots of two workers inside calls differ and, on the
\* ApproximateCounter, lie in 0..mThreads-1; a worker about to lock its slot's
\* mutex finds it free, and a worker that waits for another one waits for
\* mGlock, inside the merge of an increment or of a flush.
C21_SlotExclusivity ==
    /\ \A t \in Workers : wk[t] # "off" => t \in Spawned
    /\ \A t, u \in Workers :
          (t # u /\ Calling(t) /\ Calling(u)) => iThread[t] # iThread[u]
    /\ \A t \in Workers :
          (Calling(t) /\ iface[t] = Approx) =>
              /\ iThread[t] \in Slots
              /\ pc[t] \in {"inc_lockL", "fl_lockL"}
                    => mLlock[iThread[t]] = NoOwner
              /\ \A u \in Workers :
                    BlockedOn(t, u) => pc[t] \in {"inc_lockG", "fl_lockG"}

\* C21 witness: on a two-slot ApproximateCounter one worker is about to lock
\* its slot's mutex while the other, on the other slot, is inside its merge.
C21_Witness ==
    /\ iNumThreads = 2 /\ mThreads = 2
    /\ Calling(1) /\ Calling(2)
    /\ At(1, "inc_lockL") /\ iThread[1] = 0
    /\ At(2, "inc_storeG") /\ iThread[2] = 1
    /\ mGlock = 2

\* BenchCounter_runWorkload has returned: every worker made all its increments
\* and its flush and has been joined.
RunDone ==
    /\ hpc = "hot_get"
    /\ WorkersJoined
    /\ \A t \in Spawned : aIncrement[t] = iNumIncrements
    /\ DutCount = iNumThreads * iNumIncrements
    /\ DutName(aDut) = Approx => \A s \in Slots : mLocal[s] = 0

\* C22: run completion.  Under fair scheduling every run, of either variant
\* and for every thread count, threshold and increment count, ends: the
\* workers do not deadlock, each makes all its increments and its flush, and
\* the join of all workers returns.
C22_RunCompletes == <>RunDone

\* C22 witness: a run of two workers with one increment each has returned.
C22_Witness == RunDone /\ iNumThreads = 2 /\ iNumIncrements = 1

\* Where the harness thread is inside the loop of the measured runs.
HotLabels == {"hot", "hot_create", "hot_join", "hot_get", "hot_record",
              "hot_reset", "hot_next"}

\* The measured runs that have written their record so far.
Recorded ==
    aDut * iNumHotRuns
    + (IF hpc \in HotLabels \cup {"destroy"} THEN aRun ELSE 0)
    + (IF hpc \in {"hot_reset", "hot_next"} THEN 1 ELSE 0)

\* C23: output records.  The harness has written one record for every measured
\* run whose get has returned and none for a warm-up run (iNumHotRuns records
\* for each variant at the end); a record carries the variant, iNumThreads,
\* iThreshold and the value get wrote for that run, read with all workers
\* joined and before the reset that follows.
C23_OutputRecords ==
    /\ Len(records) = Recorded
    /\ hpc = "done" => Len(records) = kBenchCounter_idxCount * iNumHotRuns
    /\ \A i \in 1..Len(records) :
          /\ records[i][1] = DutName((i - 1) \div iNumHotRuns)
          /\ records[i][2] = iNumThreads
          /\ records[i][3] = iThreshold
    /\ (hpc = "hot_record" /\ At(Main, "idle")) =>
          (oCount[Main] = DutCount /\ WorkersJoined)
    /\ (hpc = "hot_reset" /\ At(Main, "idle")) =>
          /\ records[Len(records)][4] = oCount[Main]
          /\ oCount[Main] = DutCount

\* C23 witness: the harness is done after a warm-up run and a measured run of
\* each variant, with one record for each variant and a count above 0 in it.
C23_Witness ==
    /\ hpc = "done"
    /\ iNumWarmups = 1 /\ iNumHotRuns = 1
    /\ Len(records) = 2
    /\ records[1][1] = Approx /\ records[2][1] = Trad
    /\ records[1][4] > 0 /\ records[2][4] > 0

\* The instances of the trial in progress that exist.
Live == {d \in Duts : Count("create", events[d]) > Count("destroy", events[d])}

\* history: the creates and the destroys of the sub-command so far.
Made  == sweep.made + Count("create", events[0]) + Count("create", events[1])
Freed == sweep.freed + Count("destroy", events[0]) + Count("destroy", events[1])

\* C24: independent trials.  In a sweep at most one counter exists at a time,
\* every instance made before a create has been destroyed, a created instance
\* starts with all counts at zero, each finished trial has made one instance of
\* each variant, and when the sweep has returned the creates and the destroys
\* are equal in number.
C24_IndependentTrials ==
    /\ Cardinality(Live) <= 1
    /\ Made - Freed = Cardinality(Live)
    /\ hpc \in {"sweep", "dut", "create", "returned"} => Made = Freed
    /\ (hpc = "warm" /\ events[aDut] = <<"create">>) => DutClear
    /\ sweep.made = kBenchCounter_idxCount * Len(sweep.trials)
    /\ hpc = "returned" => Made = kBenchCounter_idxCount * Len(sweep.trials)

\* C24 witness: a threshold sweep of two trials has returned, four creates and
\* four destroys behind it.
C24_Witness ==
    /\ hpc = "returned"
    /\ sweep.cmd = "sweep_threshold"
    /\ Len(sweep.trials) = 2
    /\ sweep.made = 4 /\ sweep.freed = 4

\* C29: thread count is carried faithfully.  Inside a trial of a thread sweep
\* iNumThreads is the thread count the sweep asked for, the ApproximateCounter
\* has that many slots and the records of the trial report it; every finished
\* trial ran with the thread count it was asked for.
C29_ThreadCountCarried ==
    sweep.cmd = "sweep_threads" =>
        /\ hpc \notin {"sweep", "returned"} =>
              /\ iNumThreads = sweep.aThreads
              /\ (DutName(aDut) = Approx /\ aDut \in Live) =>
                     mThreads = sweep.aThreads
        /\ \A i \in 1..Len(sweep.trials) :
              sweep.trials[i][3] = sweep.trials[i][1]

\* 2^n
RECURSIVE Pow2(_)
Pow2(n) == IF n = 0 THEN 1 ELSE 2 * Pow2(n - 1)

\* C30: sweep termination.  Under fair scheduling every sweep returns, whatever
\* its arguments, and a threshold sweep that has returned has run mSteps
\* trials, with the thresholds mStartThreshold, 2 * mStartThreshold,
\* 4 * mStartThreshold and so on.
C30_SweepTerminates ==
    /\ <>(hpc = "returned")
    /\ [](sweep.cmd = "sweep_threshold" =>
            /\ \A i \in 1..Len(sweep.trials) :
                  sweep.trials[i][2] = sweep.mStartThreshold * Pow2(i - 1)
            /\ hpc = "returned" => Len(sweep.trials) = sweep.mSteps)

\* ------------------------------------------------------- monotone reads

\* A counter whose reads are recorded in lastRead.
ReadInit ==
    \E v \in {Approx, Trad}, n \in 1..MaxThreads, th \in 1..MaxThreshold :
        CreatedReading([t \in Threads |-> v], n, th, FALSE, 0) /\ Standalone

\* One reader calls get again and again while the other workers increment and
\* flush on any slots; reset runs only while no other call is in flight.
Reader == 1

ReadNext ==
    \E t \in Workers :
        \/ t = Reader /\ NoReset /\ CallGet(t)
        \/ t # Reader /\ NoReset /\ CallIncrement(t)
        \/ t # Reader /\ NoReset /\ CallFlush(t)
        \/ Quiescent /\ CallReset(t)
        \/ Step(t)

ReadSpec == ReadInit /\ [][ReadNext]_vars

\* A get of variant v reads the count in this step.
Reads(v) ==
    \E t \in Workers :
        /\ iface[t] = v
        /\ pc[t] \in {"get_read", "tget_read"}
        /\ pc'[t] \in {"get_unlockG", "tget_unlock"}

\* The count a get of worker t has read and is about to return.
HasRead(t) == pc[t] \in {"get_unlockG", "tget_unlock"}

\* C25: between two resets the values successive gets return never decrease,
\* whatever increments and flushes run beside them: each get reads, under the
\* global lock, a count that is at least the count the get before it read
\* (lastRead, cleared by reset), and returns the count it read.
C25_MonotoneReads ==
    /\ [][\A v \in {Approx, Trad} : Reads(v) => lastRead'[v] >= lastRead[v]]_vars
    /\ [](\A t \in Workers : HasRead(t) => oCount[t] = lastRead[iface[t]])

\* A get has read 1, increments have run since, and a second get, holding the
\* global lock, is about to read 2.
C25_Witness ==
    \E u \in Workers :
        /\ pc[u] \in {"get_read", "tget_read"}
        /\ lastRead[iface[u]] = 1
        /\ (IF iface[u] = Approx THEN mGlobal ELSE tGlobal) = 2

\* ------------------------------------------------------ lock discipline

\* Callers that keep the contract of Next, on a counter created with the
\* largest threshold (small amounts stay in the slot, large ones merge).
LockInit ==
    \E v \in {Approx, Trad}, n \in 1..MaxThreads :
        CreatedReading([t \in Threads |-> v], n, MaxThreshold, FALSE, NoRead)
        /\ Standalone

LockSpec == LockInit /\ [][Next]_vars

\* The statements that read or write mGlobal, mLocal[slot] and the traditional
\* count, by the position of the thread that is about to execute them.
TouchesGlobal == {"inc_loadG", "inc_storeG", "fl_loadG", "fl_storeG",
                  "get_read", "rs_zeroG"}
TouchesCount  == {"tinc_load", "tinc_store", "tget_read", "trs_zero"}
TouchesLocal(t, slot) ==
    \/ pc[t] \in {"inc_load", "inc_store", "inc_loadG", "inc_zero",
                  "fl_loadG", "fl_zero"} /\ iThread[t] = slot
    \/ pc[t] = "rs_zeroL" /\ aThread[t] = slot

\* The statements between a lock of a mutex and its unlock, by position.
InsideGlobal == {"inc_loadG", "inc_storeG", "inc_unlockG",
                 "fl_loadG", "fl_storeG", "fl_unlockG",
                 "get_read", "get_unlockG",
                 "rs_lockL", "rs_zeroG", "rs_zeroL", "rs_unlockL",
                 "rs_unlockG"}
InsideCount  == {"tinc_load", "tinc_store", "tinc_unlock",
                 "tget_read", "tget_unlock", "trs_zero", "trs_unlock"}
InsideLocal(t, slot) ==
    \/ pc[t] \in {"inc_load", "inc_store", "inc_lockG", "inc_loadG",
                  "inc_storeG", "inc_unlockG", "inc_zero", "inc_unlockL",
                  "fl_lockG", "fl_loadG", "fl_storeG", "fl_unlockG",
                  "fl_zero", "fl_unlockL"} /\ iThread[t] = slot
    \/ pc[t] = "rs_lockL" /\ slot < aThread[t]
    \/ pc[t] = "rs_zeroG"
    \/ pc[t] \in {"rs_zeroL", "rs_unlockL"} /\ slot >= aThread[t]

\* The thread that takes a step.
Acts(t) == pc'[t] # pc[t]

\* C26: every read and write of a counter's global is made by a thread that
\* holds the counter's global lock, every write of local[s] by a thread that
\* holds local lock s, and no lock is held by two threads at once (at most one
\* thread is between the lock and the unlock of a mutex, and it is the owner),
\* in increment, flush, reset and get of both variants.
C26_LockProtectedWrites ==
    /\ [](\A t \in Workers :
            /\ pc[t] \in TouchesGlobal => mGlock = t
            /\ pc[t] \in TouchesCount => tGlock = t
            /\ \A s \in Slots : TouchesLocal(t, s) => mLlock[s] = t
            /\ pc[t] \in InsideGlobal => mGlock = t
            /\ pc[t] \in InsideCount => tGlock = t
            /\ \A s \in Slots : InsideLocal(t, s) => mLlock[s] = t)
    /\ [][/\ mGlobal' # mGlobal => \E t \in Workers : Acts(t) /\ mGlock = t
          /\ tGlobal' # tGlobal => \E t \in Workers : Acts(t) /\ tGlock = t
          /\ \A s \in Slots :
                mLocal'[s] # mLocal[s] =>
                    \E t \in Workers : Acts(t) /\ mLlock[s] = t]_vars

\* Two increments meet on one slot: one is about to write the slot under its
\* lock, the other waits for the lock.
C26_Witness ==
    \E t, u \in Workers :
        /\ t # u
        /\ pc[t] = "inc_store" /\ pc[u] = "inc_lockL"
        /\ iThread[t] = iThread[u]
        /\ mLocal[iThread[t]] > 0

\* ---------------------------------------------------------- lock balance

\* The locks thread t owns.
OwnsGlobal(t) == mGlock = t \/ tGlock = t
OwnedSlots(t) == {s \in DOMAIN mLlock : mLlock[s] = t}
\* Every lock of the two instances is free.
AllFree == \A t \in Threads : ~OwnsGlobal(t) /\ OwnedSlots(t) = {}

\* C27: an operation (increment, flush, reset, get, of either variant) has
\* released every lock it acquired when it returns: a thread that is in no
\* call owns no lock, so all locks are free whenever no call is in flight, and
\* in particular whenever the harness is about to call destroy.
C27_LockBalance ==
    /\ \A t \in Threads : At(t, "idle") => ~OwnsGlobal(t) /\ OwnedSlots(t) = {}
    /\ (\A t \in Threads : At(t, "idle")) => AllFree
    /\ hpc = "destroy" => AllFree

\* The harness is about to destroy an approximate counter on which two workers
\* have run their increments and flushes and the harness its gets and resets.
C27_Witness ==
    /\ hpc = "destroy"
    /\ DutName(aDut) = Approx
    /\ iNumThreads = 2
    /\ Len(records) > 0
    /\ \E t \in Workers : gAcq[t] > 0
    /\ AllFree

\* ------------------------------------------------------ the width of counts

\* The amounts of the wide increments: uint32_t iAmount takes any value up to
\* UINT32_MAX.
WideAmounts == {1, UINT32_MAX}

\* The counts global + the sum of local[i] hold, per variant.
Stored(v) == IF v = Approx THEN GetValueWithLocals ELSE tGlobal

\* A counter of either variant with one slot or more.
WideInit ==
    \E v \in {Approx, Trad}, n \in 1..MaxThreads, th \in 1..MaxThreshold :
        Created([t \in Threads |-> v], n, th, FALSE) /\ Standalone

\* A caller invokes mIncrementPtr(counter, slot, amount) with a small or a
\* large amount (until the sum of the amounts has passed 2^32 once, and while
\* the sum modulo 2^32 is within MaxCount of 0).
WideCallIncrement(t) ==
    /\ At(t, "idle")
    /\ carry[iface[t]] = 0
    /\ \E s \in Slots, a \in WideAmounts :
          /\ (0 - MaxCount) <= AddU32(total[iface[t]], a)
          /\ AddU32(total[iface[t]], a) <= MaxCount
          /\ iThread' = [iThread EXCEPT ![t] = s]
          /\ iAmount' = [iAmount EXCEPT ![t] = a]
    /\ Goto(t, IF iface[t] = Approx THEN "inc_lockL" ELSE "tinc_lock")
    /\ resetRun' = 0
    /\ flushed' = {}
    /\ UNCHANGED <<params, harness, counterA, counterT, aThread, reg, oCount,
                   total, carry, lastRead>>

\* Callers that run one call at a time.
WideNext ==
    \E t \in Workers :
        \/ Quiescent /\ WideCallIncrement(t)
        \/ Quiescent /\ CallFlush(t)
        \/ Quiescent /\ CallGet(t)
        \/ Quiescent /\ CallReset(t)
        \/ Step(t)

WideSpec == WideInit /\ [][WideNext]_vars

\* The sum S of the amounts since the last reset is carry * 2^32 + total: the
\* counts hold S exactly when they hold total and the sum never passed 2^32.
HoldsExactSum(v) == carry[v] = 0 /\ Stored(v) = total[v]

\* C28: the stored counts never wrap: between calls, global + the sum of
\* local[i] is the exact sum S of the amounts incremented since the last
\* reset, and a get that follows a flush of every slot returns S.
C28_CountsWideEnough ==
    /\ Quiescent => \A v \in {Approx, Trad} : HoldsExactSum(v)
    /\ \A t \in Workers :
          (HasRead(t) /\ (iface[t] = Approx => SumLocal = 0))
              => (carry[iface[t]] = 0 /\ oCount[t] = total[iface[t]])

=============================================================================
